---- MODULE Spec2Model ----
(***************************************************************************)
(* Heimdall: the control-plane server (backend/app) and the Windows agent  *)
(* (agents/windows/agent).                                                 *)
(*                                                                         *)
(* The TAN engine (services/tan_service.py, routers/tans.py), TAN creation *)
(* (generate_tan_code and the unique index of tans.code) and the rule push *)
(* after a mutation (services/rule_push_service.py and the routers that    *)
(* call it).                                                               *)
(*                                                                         *)
(* Time is counted in whole seconds since 00:00:00 UTC of day 0.  Every    *)
(* request handler runs in a database session of its own (get_db): what it *)
(* flushes is visible to the other sessions only after its commit, and an  *)
(* UPDATE of a row waits for the row lock of an earlier, uncommitted       *)
(* UPDATE of the same row (PostgreSQL, READ COMMITTED).  A handler can be  *)
(* suspended at every await; the actions below are the stretches of code   *)
(* between two awaits.                                                     *)
(*                                                                         *)
(* Specifications:                                                         *)
(*   Spec          generate, redeem and invalidate requests on a table     *)
(*                 that starts empty;                                      *)
(*   SpecValidate  redeem and invalidate requests on drawn tables and      *)
(*                 clock instants;                                         *)
(*   SpecRace      concurrent redeem and invalidate requests on drawn      *)
(*                 tables;                                                 *)
(*   SpecGen       concurrent TAN-creating sessions;                       *)
(*   SpecPush      mutating handlers, device connections and the rule      *)
(*                 push;                                                   *)
(*   SpecCache     the rules cache under concurrent pushes and cached      *)
(*                 resolutions;                                            *)
(*   SpecResolve   _compute_current_rules on drawn rows;                   *)
(*   SpecRegistry  the device side of the connection registry;             *)
(*   SpecParents   the parent side of the connection registry;             *)
(*   SpecAgent     the Windows agent: message dispatch, rule poll and      *)
(*                 rule application;                                       *)
(*   SpecEnforce   the agent's blocker: the enforce loop, the block and    *)
(*                 unblock commands and the TOTP override;                 *)
(*   SpecSync      the agent's offline queue and its sync loop             *)
(*                 (SpecSyncFair: the sync loop keeps running);            *)
(*   SpecStop      the agent's tasks and the stop signal (SpecStopFair:    *)
(*                 the event loop runs every task that can run);           *)
(*   SpecQuests    the quest scheduler among the parent's requests;        *)
(*   SpecTanSchedules  runs of the TAN scheduler in two processes;         *)
(*   SpecRewards   runs of the usage rewards in two processes;             *)
(*   SpecQuestFlow the requests that move a quest instance through its     *)
(*                 statuses;                                               *)
(*   SpecSnapshots the agent with rules snapshots as the only source of    *)
(*                 blocks;                                                 *)
(*   SpecOverride  the enforce loop, the rule poll and the TOTP override   *)
(*                 (SpecOverrideFair: both loops keep running);            *)
(*   SpecRetention the TANs of a month and the cleanup task                *)
(*                 (SpecRetentionFair: the task runs every day);           *)
(*   SpecResync    the offline queue with lost responses and a stop of     *)
(*                 the agent in mid-batch.                                 *)
(***************************************************************************)
EXTENDS Integers, Sequences, FiniteSets, TLC

----------------------------------------------------------------------------
\* Bounds of the model.

\* Rows the tans table can hold.
MaxTans == 4
\* Requests (redeem, invalidate) the server accepts in one run of Spec.
MaxRequests == 3
\* Requests the server accepts in one run of SpecRace.
RaceRequests == 2
\* Requests the server accepts in one run of SpecValidate.
ValRequests == 1
\* The clock of SpecValidate runs over the days 0..MaxDay.
MaxDay == 1
\* Distinct codes _generate_code can return (20 words x 10000 numbers in the
\* program).
NumCodes == 2
\* TAN-creating sessions started in one run of SpecGen.
MaxCreates == 2
\* Mutations of rule data handled in one run of SpecPush.
MaxMutations == 2
MaxQueued == 2

----------------------------------------------------------------------------
\* Program constants (tan_service.py).

DEFAULT_MAX_TANS_PER_DAY == 3
DEFAULT_MAX_BONUS_MINUTES_PER_DAY == 90
\* time(21, 0) and time(6, 0) as seconds of the day.
BLACKOUT_START == 21 * 3600
BLACKOUT_END == 6 * 3600
\* for _ in range(10) of generate_tan_code.
MaxDraws == 10

----------------------------------------------------------------------------
\* Optional values (Python's None) and time arithmetic.

None == << >>
Some(x) == << x >>

DaySeconds == 24 * 3600
\* now.date() and now.time() of a datetime.
DateOf(t) == t \div DaySeconds
TimeOf(t) == t % DaySeconds
\* datetime.combine(now.date(), time(0, 0)) and (..., time(23, 59, 59)).
TodayStart(t) == DateOf(t) * DaySeconds
TodayEnd(t) == DateOf(t) * DaySeconds + (23 * 3600 + 59 * 60 + 59)

\* The instants the clock is sampled at: one second before and exactly at
\* each end of the blackout window, on every day.
ClockTimes == {BLACKOUT_END - 1, BLACKOUT_END, BLACKOUT_START - 1, BLACKOUT_START}
Instants == {d * DaySeconds + s : d \in 0..MaxDay, s \in ClockTimes}

----------------------------------------------------------------------------
\* Inputs.

Children == {1, 2}

\* Request handlers that can be in flight at the same time.
Reqs == {1, 2}

\* AppGroup rows: id -> tan_allowed.  Group 3 is referenced by TANs but has
\* no row (a deleted group).
AppGroups == [g \in {1, 2} |-> (g = 1)]

\* Bodies of POST /tans/generate (TANCreate), the k-th call drawing from the
\* k-th set; expires_at is optional.
GenInputs ==
    << { [child |-> 1, value |-> None,     scope |-> << >>,      expires |-> None] },
       { [child |-> 1, value |-> None,     scope |-> << >>,      expires |-> None],
         [child |-> 1, value |-> Some(45), scope |-> << 3, 2 >>, expires |-> None] },
       { [child |-> 1, value |-> Some(45), scope |-> << 1 >>,    expires |-> None] },
       { [child |-> 1, value |-> Some(46), scope |-> << >>,      expires |-> Some(BLACKOUT_START - 1)] },
       { [child |-> 2, value |-> Some(45), scope |-> << >>,      expires |-> None] } >>

----------------------------------------------------------------------------
VARIABLES
    now,      \* the wall clock, datetime.now(timezone.utc)
    horizon,  \* the last instant of the run
    tans,     \* the committed rows of table tans, by id
    req,      \* the request handlers in flight
    pend,     \* each handler's flushed, uncommitted UPDATE
    okCount,  \* per TAN: redeem requests answered 200 so far
    budget,   \* requests the server still accepts in this run
    gen,      \* the TAN-creating sessions in flight
    genBudget, \* TAN-creating sessions still started in this run
    conns,    \* connection_manager._connections: the connected devices
    applied,  \* per child: the committed mutations of its rule data
    received, \* per device: the mutations its rules_updated messages reflected
    hand,     \* the mutating request handlers in flight
    mutBudget, \* mutations still handled in this run
    policy,   \* the committed mutations of one child's rule data
    cache,    \* redis: per device the value of key rules:device:<id>
    pusher,   \* the handlers in push_rules_to_child_devices
    pushDone, \* the mutations whose push has returned
    resolver, \* a get_current_rules call that may use the cache
    rdb,      \* the rows _compute_current_rules reads
    resolved, \* per device id: the record a resolution returned
    connections,   \* ConnectionManager._connections: device id -> socket
    child_devices, \* ConnectionManager._child_devices: child id -> device ids
    sock,     \* per device socket: the state of its handler and transport
    inbox,    \* per device socket: the messages it received, in order
    task,     \* the registry calls of the tasks that push
    parent_connections, \* ConnectionManager._parent_connections: family -> sockets
    psock,    \* per parent socket: the state of its handler and transport
    pinbox,   \* per parent socket: the messages it received, in order
    notifier, \* the notify_parents calls in flight
    ws_in,    \* the agent's WebSocket: messages pushed and not yet read
    agent_rules,    \* HeimdallAgent._rules: the current rules snapshot
    blocked_groups, \* AppBlocker.blocked_groups
    cached_rules,   \* the agent's offline cache: the row of cached_rules
    online,         \* HeimdallAgent._online
    current_session,     \* ProcessMonitor._current_session
    totp_override_until, \* HeimdallAgent._totp_override_until
    agent_now,      \* the agent's clock, datetime.now(timezone.utc)
    alive,          \* the device's process table: is the pid running
    killer,         \* the enforce call in flight and its executor thread
    last_enforce,   \* what the enforce call that returned last has done
    pending_events, \* the agent's offline cache: the rows of pending_events
    server_up,      \* can the agent reach the server
    produced,       \* the usage events and heartbeats whose REST call ended
    server_log,     \* the events the server took, in the order of arrival
    sync,           \* the batch of the sync loop
    stop_event,     \* HeimdallAgent._stop_event
    starter,        \* where HeimdallAgent.start() is
    atask,          \* the tasks start() created: their await, cancel requests
    utc_day,        \* the server's date, datetime.now(timezone.utc).date()
    holidays,       \* the dates with a holiday or vacation day_type_override
    quest_templates,   \* the rows of quest_templates of one family
    quest_children,    \* the users of the family with role child
    quest_instances,   \* the committed rows of quest_instances
    quest_runs,        \* per run of schedule_daily_quests: what it saw and returned
    quest_changes,     \* the changes made by the parent's requests so far
    tan_schedule_logs, \* the committed rows of tan_schedule_logs
    scheduled_tans,    \* the committed rows of tans with source scheduled
    runner,            \* the runs of run_tan_schedules and their sessions
    tan_runs,          \* the runs of run_tan_schedules started so far
    usage_reward_logs, \* the committed rows of usage_reward_logs
    reward_tans,       \* the committed rows of tans with source usage_reward
    evaluator,         \* the runs of evaluate_daily_rewards and their sessions
    reward_runs,       \* the runs of evaluate_daily_rewards started so far
    quest_handlers,    \* the handlers of quest instance requests in flight
    quest_ops          \* the quest instance requests handled so far

tanVars == << now, horizon, tans, req, pend, okCount, budget >>
genVars == << gen, genBudget >>
pushVars == << conns, applied, received, hand, mutBudget >>
cacheVars == << policy, cache, pusher, pushDone, resolver >>
ruleVars == << rdb, resolved >>
regVars == << connections, child_devices, sock, inbox, task >>
parentVars == << parent_connections, psock, pinbox, notifier >>
agentVars == << ws_in, agent_rules, blocked_groups, cached_rules, online >>
coreVars == << tanVars, genVars, pushVars >>
enforceVars == << current_session, totp_override_until, agent_now, alive,
                 killer, last_enforce >>
offlineVars == << pending_events, server_up, produced, server_log, sync >>
lifeVars == << stop_event, starter, atask >>
questVars == << quest_templates, quest_children, quest_instances, quest_runs,
               quest_changes >>
tanSchedVars == << tan_schedule_logs, scheduled_tans, runner, tan_runs >>
rewardVars == << usage_reward_logs, reward_tans, evaluator, reward_runs >>
flowVars == << quest_handlers, quest_ops >>
schedVars == << utc_day, holidays, questVars, tanSchedVars, rewardVars, flowVars >>
laterVars == << enforceVars, offlineVars, lifeVars, schedVars >>
serverVars == << coreVars, cacheVars, ruleVars, regVars, parentVars, schedVars >>
extVars == << cacheVars, ruleVars, regVars, parentVars, agentVars, laterVars >>
vars == << tanVars, genVars, pushVars, extVars >>

TanIds == 1..Len(tans)

IdleReq ==
    [kind |-> "none", pc |-> "idle", child |-> 0, tan |-> 0, st |-> "none",
     now |-> 0, reason |-> "none", calls |-> << >>, http |-> 0]

----------------------------------------------------------------------------
\* Queries of validate_tan_redemption, evaluated on the committed rows.

RedeemedToday(rows, child, t) ==
    { i \in 1..Len(rows) :
        /\ rows[i].child = child
        /\ rows[i].status = "redeemed"
        /\ rows[i].redeemed_at # None
        /\ rows[i].redeemed_at[1] >= TodayStart(t)
        /\ rows[i].redeemed_at[1] <= TodayEnd(t) }

RECURSIVE SumValues(_, _)
SumValues(rows, ids) ==
    IF ids = {} THEN 0
    ELSE LET i == CHOOSE x \in ids : TRUE
         IN  rows[i].value[1] + SumValues(rows, ids \ {i})

CountRedeemedToday(rows, child, t) == Cardinality(RedeemedToday(rows, child, t))

BonusToday(rows, child, t) ==
    SumValues(rows, { i \in RedeemedToday(rows, child, t) : rows[i].value # None })

----------------------------------------------------------------------------
\* The checks of validate_tan_redemption, each TRUE when it raises.

StatusFails(st) == st # "active"
ExpiryFails(expires, t) == expires < t
CountFails(count) == count >= DEFAULT_MAX_TANS_PER_DAY
BonusFails(total, value) == total + value > DEFAULT_MAX_BONUS_MINUTES_PER_DAY
GroupFails(scope) ==
    \E k \in 1..Len(scope) :
        scope[k] \in DOMAIN AppGroups /\ ~AppGroups[scope[k]]

BlackoutFailsAfterStart(t) == TimeOf(t) > BLACKOUT_START \/ TimeOf(t) < BLACKOUT_END
BlackoutFails(t) == TimeOf(t) >= BLACKOUT_START \/ TimeOf(t) < BLACKOUT_END

\* raise HTTPException(status_code=400, detail=...)
Failed(q, why) == [q EXCEPT !.pc = "done", !.reason = why, !.http = 400]

\* 6. Not in blackout hours; on success validate_tan_redemption returns.
BlackoutStep(q) ==
    IF BlackoutFails(q.now) THEN Failed(q, "blackout") ELSE [q EXCEPT !.pc = "redeem"]

\* 5. Group TAN allowed, then 6.
GroupsStepBlackoutFirst(q, t) ==
    IF BlackoutFails(q.now) THEN Failed(q, "blackout")
    ELSE IF GroupFails(t.scope) THEN Failed(q, "group")
    ELSE [q EXCEPT !.pc = "redeem"]
GroupsStep(q, t) ==
    IF GroupFails(t.scope) THEN Failed(q, "group") ELSE BlackoutStep(q)

\* After the last aggregate query: `if tan.scope_groups:` awaits the first
\* group query, otherwise the blackout check follows without an await.
AfterQueries(q, t) ==
    IF t.scope # << >> THEN [q EXCEPT !.pc = "v_group"] ELSE BlackoutStep(q)

RowLocked(i) == \E q \in Reqs : pend[q] # None /\ pend[q][1].tan = i

\* A new request is served by the first handler slot that is free.
FreeSlot(r) == req[r].pc = "idle" /\ \A q \in Reqs : q < r => req[q].pc # "idle"

----------------------------------------------------------------------------
\* The clock.

Tick ==
    /\ \E t \in Instants : t > now /\ t <= horizon /\ now' = t
    /\ UNCHANGED << horizon, tans, req, pend, okCount, budget >>
    /\ UNCHANGED << genVars, pushVars, extVars >>

----------------------------------------------------------------------------
\* POST /children/{child_id}/tans/generate.  The code is unique
\* (generate_tan_code and the unique index of tans.code, see SpecGen).

GenerateTan ==
    /\ Len(tans) < MaxTans
    /\ \E inp \in GenInputs[(Len(tans) % Len(GenInputs)) + 1] :
         tans' = Append(tans,
                    [child |-> inp.child, code |-> Len(tans) + 1,
                     value |-> inp.value, scope |-> inp.scope,
                     expires |-> IF inp.expires = None THEN TodayEnd(now)
                                 ELSE inp.expires[1],
                     source |-> "parent_manual",
                     status |-> "active", redeemed_at |-> None])
    /\ UNCHANGED << now, horizon, req, pend, okCount, budget >>
    /\ UNCHANGED << genVars, pushVars, extVars >>

----------------------------------------------------------------------------
\* POST /children/{child_id}/tans/redeem.

\* The lookup by code and child; then validate_tan_redemption up to its
\* first query: now is read, 1. the status and 2. the expiry are checked.
RedeemLookup(r) ==
    /\ FreeSlot(r)
    /\ budget > 0
    /\ budget' = budget - 1
    /\ \E c \in Children, code \in 1..MaxTans :
         LET found == { i \in TanIds : tans[i].code = code /\ tans[i].child = c }
         IN  IF found = {}
             THEN req' = [req EXCEPT ![r] =
                     [IdleReq EXCEPT !.kind = "redeem", !.pc = "done",
                                     !.http = 404]]
             ELSE LET i == CHOOSE x \in found : TRUE
                      q == [IdleReq EXCEPT !.kind = "redeem", !.child = c,
                                           !.tan = i, !.st = tans[i].status,
                                           !.now = now]
                  IN  req' = [req EXCEPT ![r] =
                         IF StatusFails(q.st) THEN Failed(q, "status")
                         ELSE IF ExpiryFails(tans[i].expires, q.now)
                         THEN Failed(q, "expired")
                         ELSE [q EXCEPT !.pc = "v_count"]]
    /\ UNCHANGED << now, horizon, tans, pend, okCount >>
    /\ UNCHANGED << genVars, pushVars, extVars >>

\* 3. Daily TAN limit.
ValidateCount(r) ==
    /\ req[r].pc = "v_count"
    /\ LET q == req[r]
           t == tans[q.tan]
           n == CountRedeemedToday(tans, q.child, q.now)
       IN  req' = [req EXCEPT ![r] =
              IF CountFails(n) THEN Failed(q, "count")
              ELSE IF t.value # None THEN [q EXCEPT !.pc = "v_bonus"]
              ELSE AfterQueries(q, t)]
    /\ UNCHANGED << now, horizon, tans, pend, okCount, budget >>
    /\ UNCHANGED << genVars, pushVars, extVars >>

\* 4. Daily bonus minutes limit.
ValidateBonus(r) ==
    /\ req[r].pc = "v_bonus"
    /\ LET q == req[r]
           t == tans[q.tan]
           b == BonusToday(tans, q.child, q.now)
       IN  req' = [req EXCEPT ![r] =
              IF BonusFails(b, t.value[1]) THEN Failed(q, "bonus")
              ELSE AfterQueries(q, t)]
    /\ UNCHANGED << now, horizon, tans, pend, okCount, budget >>
    /\ UNCHANGED << genVars, pushVars, extVars >>

\* 5. Group TAN allowed, and 6. blackout hours.
ValidateGroups(r) ==
    /\ req[r].pc = "v_group"
    /\ req' = [req EXCEPT ![r] = GroupsStep(req[r], tans[req[r].tan])]
    /\ UNCHANGED << now, horizon, tans, pend, okCount, budget >>
    /\ UNCHANGED << genVars, pushVars, extVars >>

\* redeem_tan: both columns are set and flushed in one UPDATE, which waits
\* for the row lock.  Then notify_tan_activated, push_rules_to_child_devices
\* and notify_parent_dashboard are called.
RedeemTan(r) ==
    /\ req[r].pc = "redeem"
    /\ ~RowLocked(req[r].tan)
    /\ pend' = [pend EXCEPT ![r] =
                  Some([tan |-> req[r].tan, status |-> "redeemed",
                        setRedeemed |-> TRUE, redeemed_at |-> Some(now)])]
    /\ req' = [req EXCEPT ![r].pc = "commit",
                          ![r].calls = << "notify_tan_activated",
                                          "push_rules_to_child_devices",
                                          "notify_parent_dashboard" >>]
    /\ UNCHANGED << now, horizon, tans, okCount, budget >>
    /\ UNCHANGED << genVars, pushVars, extVars >>

\* get_db: the session commits when the handler has returned.
Commit(r) ==
    /\ req[r].pc = "commit"
    /\ IF pend[r] = None
       THEN UNCHANGED tans
       ELSE LET p == pend[r][1]
            IN  tans' = [tans EXCEPT ![p.tan] =
                   [@ EXCEPT !.status = p.status,
                             !.redeemed_at = IF p.setRedeemed THEN p.redeemed_at
                                             ELSE @]]
    /\ pend' = [pend EXCEPT ![r] = None]
    /\ req' = [req EXCEPT ![r].pc = "done",
                          ![r].http = IF req[r].kind = "redeem" THEN 200 ELSE 204]
    /\ okCount' = IF req[r].kind = "redeem"
                  THEN [okCount EXCEPT ![req[r].tan] = @ + 1]
                  ELSE okCount
    /\ UNCHANGED << now, horizon, budget >>
    /\ UNCHANGED << genVars, pushVars, extVars >>

----------------------------------------------------------------------------
\* DELETE /children/{child_id}/tans/{tan_id}.

InvalidateLookup(r) ==
    /\ FreeSlot(r)
    /\ budget > 0
    /\ budget' = budget - 1
    /\ \E c \in Children, i \in 1..MaxTans :
         IF i \in TanIds /\ tans[i].child = c /\ tans[i].status # "deleted"
         THEN req' = [req EXCEPT ![r] =
                 [IdleReq EXCEPT !.kind = "invalidate", !.pc = "inv_flush",
                                 !.child = c, !.tan = i, !.st = tans[i].status]]
         ELSE req' = [req EXCEPT ![r] =
                 [IdleReq EXCEPT !.kind = "invalidate", !.pc = "done",
                                 !.http = 404]]
    /\ UNCHANGED << now, horizon, tans, pend, okCount >>
    /\ UNCHANGED << genVars, pushVars, extVars >>

\* tan.status = "expired"; flush.  The unit of work emits an UPDATE of the
\* status column, and only when the loaded value differs.  Then
\* push_rules_to_child_devices and notify_parent_dashboard are called.
InvalidateFlush(r) ==
    /\ req[r].pc = "inv_flush"
    /\ IF req[r].st = "expired"
       THEN UNCHANGED pend
       ELSE /\ ~RowLocked(req[r].tan)
            /\ pend' = [pend EXCEPT ![r] =
                          Some([tan |-> req[r].tan, status |-> "expired",
                                setRedeemed |-> FALSE, redeemed_at |-> None])]
    /\ req' = [req EXCEPT ![r].pc = "commit",
                          ![r].calls = << "push_rules_to_child_devices",
                                          "notify_parent_dashboard" >>]
    /\ UNCHANGED << now, horizon, tans, okCount, budget >>
    /\ UNCHANGED << genVars, pushVars, extVars >>

\* The response is sent; the handler's slot serves the next request.
Respond(r) ==
    /\ req[r].pc = "done"
    /\ req' = [req EXCEPT ![r] = IdleReq]
    /\ UNCHANGED << now, horizon, tans, pend, okCount, budget >>
    /\ UNCHANGED << genVars, pushVars, extVars >>

----------------------------------------------------------------------------
\* The data cleanup task (main.py, _cleanup_loop).  A deleted row keeps its
\* place in tans, marked "deleted", so that the ids of the other rows stay.

\* The last day of a run with the cleanup task.
MaxSweepDay == 31
\* timedelta(days=30) of cutoff_tans and the hour the task wakes up at.
TanRetentionDays == 30
CleanupHour == 3
\* The daily runs taken in one step: those of a month.
SweepRuns == {MaxSweepDay}

\* target: the next 03:00 UTC after t.
NextCleanupTime(t) ==
    LET target == TodayStart(t) + CleanupHour * 3600
    IN  IF target <= t THEN target + DaySeconds ELSE target

\* delete(TAN).where(TAN.status.in_(["redeemed", "expired"]),
\*                   TAN.expires_at < cutoff_tans)
SweptTans(rows, cutoff_tans) ==
    [i \in DOMAIN rows |->
        IF rows[i].status \in {"redeemed", "expired"} /\ rows[i].expires < cutoff_tans
        THEN [rows[i] EXCEPT !.status = "deleted"]
        ELSE rows[i]]

\* The task sleeps until 03:00 UTC and deletes; n such days pass, at an
\* hour no request is in flight.  The runs before the last delete nothing
\* the last does not.
CleanupRuns(n) ==
    /\ \A r \in Reqs : req[r].pc = "idle" /\ pend[r] = None
    /\ LET t == NextCleanupTime(now) + (n - 1) * DaySeconds
       IN  /\ t <= horizon
           /\ now' = t
           /\ tans' = SweptTans(tans, t - TanRetentionDays * DaySeconds)
    /\ UNCHANGED << horizon, req, pend, okCount, budget >>
    /\ UNCHANGED << genVars, pushVars, extVars >>

----------------------------------------------------------------------------
\* TAN creation: generate_tan_code and the INSERT of the new row, as run by
\* POST /tans/generate, the TOTP unlock, a quest approval and the schedulers.

GenSessions == {1, 2}
Codes == 1..NumCodes
Sources == {"parent_manual", "totp", "quest", "scheduled", "usage_reward"}
\* TANs a session creates before it commits: run_tan_schedules and
\* evaluate_daily_rewards create one per schedule or rule that is due (two
\* here), the request handlers one.
BatchOf == [src \in Sources |-> IF src \in {"scheduled", "usage_reward"} THEN 2 ELSE 1]

IdleGen ==
    [pc |-> "idle", source |-> "none", draws |-> 0, code |-> 0,
     rows |-> << >>, error |-> "none"]

CodesOf(rows) == { rows[i].code : i \in 1..Len(rows) }

\* select(TAN).where(TAN.code == code) in session g: the committed rows and
\* the rows the session itself has flushed.
CodeFound(g, code) == code \in CodesOf(tans) \cup CodesOf(gen[g].rows)

\* The unique index of tans.code (unique=True): an INSERT of a code in
\* `codes` conflicts.
NoUniqueIndex(codes, code) == FALSE
UniqueConflict(codes, code) == code \in codes

PendingElsewhere(g) == UNION { CodesOf(gen[h].rows) : h \in GenSessions \ {g} }

\* The exception leaves the handler or the scheduler loop: the session is
\* rolled back.
GenFailed(q, why) ==
    [IdleGen EXCEPT !.pc = "done", !.source = q.source, !.error = why]

StartCreate(g) ==
    /\ gen[g].pc = "idle"
    /\ \A h \in GenSessions : h < g => gen[h].pc # "idle"
    /\ genBudget > 0
    /\ genBudget' = genBudget - 1
    /\ \E src \in Sources :
         gen' = [gen EXCEPT ![g] = [IdleGen EXCEPT !.pc = "draw", !.source = src]]
    /\ UNCHANGED << tanVars, pushVars, extVars >>

\* One iteration of the loop of generate_tan_code: draw, select, return the
\* code if no row has it; HTTPException(500) after the tenth collision.
DrawCode(g) ==
    /\ gen[g].pc = "draw"
    /\ \E code \in Codes :
         LET n == gen[g].draws + 1
         IN  gen' = [gen EXCEPT ![g] =
                IF ~CodeFound(g, code)
                THEN [@ EXCEPT !.pc = "insert", !.draws = n, !.code = code]
                ELSE IF n >= MaxDraws THEN GenFailed(@, "exhausted")
                ELSE [@ EXCEPT !.draws = n]]
    /\ UNCHANGED << tanVars, genBudget, pushVars, extVars >>

\* db.add(tan); flush: the INSERT waits while another session holds the code
\* in an uncommitted row, and raises IntegrityError when a committed row
\* has it.
InsertTan(g) ==
    /\ gen[g].pc = "insert"
    /\ ~UniqueConflict(PendingElsewhere(g), gen[g].code)
    /\ gen' = [gen EXCEPT ![g] =
          IF UniqueConflict(CodesOf(tans), gen[g].code)
          THEN GenFailed(@, "integrity")
          ELSE [@ EXCEPT !.pc = "flushed",
                         !.rows = Append(@, [child |-> 1, code |-> gen[g].code,
                                             value |-> Some(45), scope |-> << >>,
                                             expires |-> TodayEnd(now),
                                             source |-> gen[g].source,
                                             status |-> "active",
                                             redeemed_at |-> None])]]
    /\ UNCHANGED << tanVars, genBudget, pushVars, extVars >>

\* Two sessions wait for each other's uncommitted code: the database aborts
\* one of them.
DeadlockAbort(g) ==
    /\ gen[g].pc = "insert"
    /\ \E h \in GenSessions \ {g} :
         /\ gen[h].pc = "insert"
         /\ gen[g].code \in CodesOf(gen[h].rows)
         /\ gen[h].code \in CodesOf(gen[g].rows)
    /\ gen' = [gen EXCEPT ![g] = GenFailed(@, "deadlock")]
    /\ UNCHANGED << tanVars, genBudget, pushVars, extVars >>

\* The scheduler's loop goes on to its next schedule or rule.
NextInBatch(g) ==
    /\ gen[g].pc = "flushed"
    /\ Len(gen[g].rows) < BatchOf[gen[g].source]
    /\ gen' = [gen EXCEPT ![g].pc = "draw", ![g].draws = 0]
    /\ UNCHANGED << tanVars, genBudget, pushVars, extVars >>

\* get_db, or db.commit() of the scheduler loop.
CommitCreate(g) ==
    /\ gen[g].pc = "flushed"
    /\ tans' = tans \o gen[g].rows
    /\ gen' = [gen EXCEPT ![g] =
                [IdleGen EXCEPT !.pc = "done", !.source = gen[g].source]]
    /\ UNCHANGED << now, horizon, req, pend, okCount, budget, genBudget, pushVars, extVars >>

FinishCreate(g) ==
    /\ gen[g].pc = "done"
    /\ gen' = [gen EXCEPT ![g] = IdleGen]
    /\ UNCHANGED << tanVars, genBudget, pushVars, extVars >>

----------------------------------------------------------------------------
\* The handlers that mutate the rule data of a child, and
\* push_rules_to_child_devices.

Devices == {1, 2, 3}
\* Device.child_id of the registered devices.
DeviceChild == [d \in Devices |-> IF d = 3 THEN 2 ELSE 1]

Handlers == {1, 2}

TimeRuleHandlers == {"create_rule", "update_rule", "delete_rule"}
AppGroupHandlers ==
    {"create_app_group", "update_app_group", "delete_app_group",
     "set_apps_for_group", "add_app_to_group"}
TanHandlers == {"redeem_tan_endpoint", "invalidate_tan"}
DeviceHandlers == {"set_device_coupling"}
MutatingHandlers ==
    TimeRuleHandlers \cup AppGroupHandlers \cup TanHandlers \cup DeviceHandlers

\* The handlers whose body calls push_rules_to_child_devices after the flush.
CallsPush(kind) == kind \in TimeRuleHandlers \cup AppGroupHandlers \cup TanHandlers

IdleHand ==
    [pc |-> "idle", kind |-> "none", child |-> 0, mut |-> 0, todo |-> << >>,
     stable |-> {}, pushed |-> FALSE]

RECURSIVE InOrder(_)
InOrder(S) ==
    IF S = {} THEN << >>
    ELSE LET d == CHOOSE x \in S : \A y \in S : x <= y
         IN  << d >> \o InOrder(S \ {d})

\* A device left _connections: no handler counts it as connected throughout
\* any more.
Dropped(d) == [h \in Handlers |-> [hand[h] EXCEPT !.stable = @ \ {d}]]

\* connection_manager.connect and disconnect.
Connect(d) ==
    /\ d \notin conns
    /\ conns' = conns \cup {d}
    /\ UNCHANGED << extVars, tanVars, genVars, applied, received, hand, mutBudget >>

Disconnect(d) ==
    /\ d \in conns
    /\ conns' = conns \ {d}
    /\ hand' = Dropped(d)
    /\ UNCHANGED << extVars, tanVars, genVars, applied, received, mutBudget >>

\* The handler changes its rows and flushes; stable are the devices of the
\* child connected at that moment.
StartMutation(h) ==
    /\ hand[h].pc = "idle"
    /\ \A k \in Handlers : k < h => hand[k].pc # "idle"
    /\ mutBudget > 0
    /\ mutBudget' = mutBudget - 1
    /\ \E kind \in MutatingHandlers, c \in Children :
         hand' = [hand EXCEPT ![h] =
            [IdleHand EXCEPT !.pc = IF CallsPush(kind) THEN "push" ELSE "commit",
                             !.kind = kind, !.child = c,
                             !.mut = MaxMutations - mutBudget + 1,
                             !.stable = { d \in conns : DeviceChild[d] = c }]]
    /\ UNCHANGED << extVars, tanVars, genVars, conns, applied, received >>

\* push_rules_to_child_devices: select(Device).where(child_id == ...).
PushList(h) ==
    /\ hand[h].pc = "push"
    /\ hand' = [hand EXCEPT ![h].pc = "send", ![h].pushed = TRUE,
                             ![h].todo = InOrder({ d \in Devices :
                                             DeviceChild[d] = hand[h].child })]
    /\ UNCHANGED << extVars, tanVars, genVars, conns, applied, received, mutBudget >>

\* One iteration of its loop: get_current_rules(bypass_cache=True) in the
\* handler's session, which sees the committed mutations and its own; then
\* send_to_device, which sends if the device is connected and removes the
\* connection if the send raises.
PushSend(h) ==
    /\ hand[h].pc = "send"
    /\ LET d == Head(hand[h].todo)
           rules == applied[hand[h].child] \cup {hand[h].mut}
           rest == [hand EXCEPT ![h].todo = Tail(@),
                                ![h].pc = IF Len(hand[h].todo) = 1 THEN "commit"
                                          ELSE "send"]
       IN  \/ /\ d \in conns
              /\ received' = [received EXCEPT ![d] = @ \cup rules]
              /\ hand' = rest
              /\ UNCHANGED conns
           \/ /\ d \in conns
              /\ conns' = conns \ {d}
              /\ hand' = [k \in Handlers |-> [rest[k] EXCEPT !.stable = @ \ {d}]]
              /\ UNCHANGED received
           \/ /\ d \notin conns
              /\ hand' = rest
              /\ UNCHANGED << conns, received >>
    /\ UNCHANGED << extVars, tanVars, genVars, applied, mutBudget >>

\* get_db: the session commits when the handler has returned.
CommitMutation(h) ==
    /\ hand[h].pc = "commit"
    /\ applied' = [applied EXCEPT ![hand[h].child] = @ \cup {hand[h].mut}]
    /\ hand' = [hand EXCEPT ![h].pc = "done"]
    /\ UNCHANGED << extVars, tanVars, genVars, conns, received, mutBudget >>

\* get_db: session.commit() raises, or an exception reaches the dependency
\* after the handler's push; the session is rolled back.
RollbackMutation(h) ==
    /\ hand[h].pc = "commit"
    /\ hand' = [hand EXCEPT ![h].pc = "failed"]
    /\ UNCHANGED << extVars, tanVars, genVars, conns, applied, received, mutBudget >>

RespondMutation(h) ==
    /\ hand[h].pc \in {"done", "failed"}
    /\ hand' = [hand EXCEPT ![h] = IdleHand]
    /\ UNCHANGED << extVars, tanVars, genVars, conns, applied, received, mutBudget >>

----------------------------------------------------------------------------
\* The rules cache (services/rule_engine.py, get_current_rules) under the
\* rule push.  One child with the devices CacheDevices; mutation m of the
\* child's rule data is handled by handler m, whose session sees the
\* committed mutations and its own.  Resolved rules are the set of
\* mutations they reflect.

CacheDevices == {1, 2}
CacheMuts == {1, 2}

IdlePusher == [pc |-> "idle", todo |-> << >>, result |-> {}]
IdleResolver == [pc |-> "idle", dev |-> 0, seen |-> {}, result |-> {}]

\* _compute_current_rules in a session: the rows the session can read.
ComputeRules(own) == policy \cup own

\* A mutating handler flushes its change and calls
\* push_rules_to_child_devices, which lists the child's devices.
PushStart(m) ==
    /\ pusher[m].pc = "idle"
    /\ pusher' = [pusher EXCEPT ![m] = [pc |-> "compute", todo |-> << 1, 2 >>,
                                        result |-> {}]]
    /\ UNCHANGED << coreVars, laterVars, agentVars, parentVars, ruleVars, regVars, policy, cache, pushDone, resolver >>

\* get_current_rules(bypass_cache=True): the computation ...
PushCompute(m) ==
    /\ pusher[m].pc = "compute"
    /\ pusher' = [pusher EXCEPT ![m].pc = "setex",
                                ![m].result = ComputeRules({m})]
    /\ UNCHANGED << coreVars, laterVars, agentVars, parentVars, ruleVars, regVars, policy, cache, pushDone, resolver >>

\* ... and, after an await, redis.setex of its result; then the next device
\* of the loop, or the return of the push.
PushSetex(m) ==
    /\ pusher[m].pc = "setex"
    /\ cache' = [cache EXCEPT ![Head(pusher[m].todo)] = Some(pusher[m].result)]
    /\ LET rest == Tail(pusher[m].todo)
       IN  /\ pusher' = [pusher EXCEPT ![m].todo = rest,
                                       ![m].pc = IF rest = << >> THEN "pushed"
                                                 ELSE "compute"]
           /\ pushDone' = IF rest = << >> THEN pushDone \cup {m} ELSE pushDone
    /\ UNCHANGED << coreVars, laterVars, agentVars, parentVars, ruleVars, regVars, policy, resolver >>

\* get_db commits after the handler has returned.
PushCommit(m) ==
    /\ pusher[m].pc = "pushed"
    /\ policy' = policy \cup {m}
    /\ pusher' = [pusher EXCEPT ![m].pc = "committed"]
    /\ UNCHANGED << coreVars, laterVars, agentVars, parentVars, ruleVars, regVars, cache, pushDone, resolver >>

\* get_db rolls the session back instead.
PushRollback(m) ==
    /\ pusher[m].pc = "pushed"
    /\ pusher' = [pusher EXCEPT ![m].pc = "rolled_back"]
    /\ UNCHANGED << coreVars, laterVars, agentVars, parentVars, ruleVars, regVars, policy, cache, pushDone, resolver >>

\* get_current_rules(bypass_cache=False): redis.get; a hit is returned.
ResolveGet(d) ==
    /\ resolver.pc = "idle"
    /\ resolver' = IF cache[d] # None
                   THEN [pc |-> "returned", dev |-> d, seen |-> pushDone,
                         result |-> cache[d][1]]
                   ELSE [pc |-> "compute", dev |-> d, seen |-> pushDone,
                         result |-> {}]
    /\ UNCHANGED << coreVars, laterVars, agentVars, parentVars, ruleVars, regVars, policy, cache, pusher, pushDone >>

\* A miss: the computation in the caller's session ...
ResolveCompute ==
    /\ resolver.pc = "compute"
    /\ resolver' = [resolver EXCEPT !.pc = "setex", !.result = ComputeRules({})]
    /\ UNCHANGED << coreVars, laterVars, agentVars, parentVars, ruleVars, regVars, policy, cache, pusher, pushDone >>

\* ... and redis.setex of its result.
ResolveSetex ==
    /\ resolver.pc = "setex"
    /\ cache' = [cache EXCEPT ![resolver.dev] = Some(resolver.result)]
    /\ resolver' = [resolver EXCEPT !.pc = "returned"]
    /\ UNCHANGED << coreVars, laterVars, agentVars, parentVars, ruleVars, regVars, policy, pusher, pushDone >>

ResolveReturn ==
    /\ resolver.pc = "returned"
    /\ resolver' = IdleResolver
    /\ UNCHANGED << coreVars, laterVars, agentVars, parentVars, ruleVars, regVars, policy, cache, pusher, pushDone >>

\* The key expires RULES_CACHE_TTL seconds after it was set.
CacheExpire(d) ==
    /\ cache[d] # None
    /\ cache' = [cache EXCEPT ![d] = None]
    /\ UNCHANGED << coreVars, laterVars, agentVars, parentVars, ruleVars, regVars, policy, pusher, pushDone, resolver >>

----------------------------------------------------------------------------
\* Rule resolution (services/rule_engine.py, _compute_current_rules) as a
\* function of the rows it reads.  Dates are day numbers, Today is the date
\* of the call; devices 1 and 2 belong to child 1, device 3 to child 2 and
\* device 4 has no row.

Today == 1
ResolveIds == {1, 2, 3, 4}
DeviceRows == [d \in {1, 2, 3} |-> [child_id |-> IF d = 3 THEN 2 ELSE 1]]
RuleIds == {1, 2}

\* TimeRule rows the tables are drawn from.
RuleRows ==
    { [child_id |-> 1, active |-> TRUE, valid_from |-> None, valid_until |-> None,
       day_types |-> {"weekday", "weekend"}, priority |-> 10,
       time_windows |-> << "14:00-18:00" >>, group_limits |-> << >>,
       daily_limit_minutes |-> Some(3)],
      [child_id |-> 1, active |-> TRUE, valid_from |-> None, valid_until |-> None,
       day_types |-> {"weekday"}, priority |-> 20,
       time_windows |-> << "08:00-09:00" >>,
       group_limits |-> << [group_id |-> 1, max_minutes |-> 30] >>,
       daily_limit_minutes |-> Some(2)],
      [child_id |-> 1, active |-> FALSE, valid_from |-> None, valid_until |-> None,
       day_types |-> {"weekday", "weekend"}, priority |-> 10,
       time_windows |-> << >>, group_limits |-> << >>,
       daily_limit_minutes |-> Some(1)],
      [child_id |-> 1, active |-> TRUE, valid_from |-> Some(Today + 1), valid_until |-> None,
       day_types |-> {"weekday", "weekend"}, priority |-> 10,
       time_windows |-> << >>, group_limits |-> << >>,
       daily_limit_minutes |-> Some(1)],
      [child_id |-> 1, active |-> TRUE, valid_from |-> None, valid_until |-> Some(Today - 1),
       day_types |-> {"weekday", "weekend"}, priority |-> 10,
       time_windows |-> << >>, group_limits |-> << >>,
       daily_limit_minutes |-> Some(1)],
      [child_id |-> 1, active |-> TRUE, valid_from |-> Some(Today), valid_until |-> Some(Today),
       day_types |-> {"weekend", "holiday"}, priority |-> 30,
       time_windows |-> << "10:00-12:00" >>, group_limits |-> << >>,
       daily_limit_minutes |-> Some(1)],
      [child_id |-> 1, active |-> TRUE, valid_from |-> None, valid_until |-> None,
       day_types |-> {"weekday", "weekend"}, priority |-> 10,
       time_windows |-> << >>,
       group_limits |-> << [group_id |-> 2, max_minutes |-> 45] >>,
       daily_limit_minutes |-> None],
      [child_id |-> 1, active |-> TRUE, valid_from |-> None, valid_until |-> None,
       day_types |-> {}, priority |-> 10,
       time_windows |-> << >>, group_limits |-> << >>,
       daily_limit_minutes |-> Some(1)],
      [child_id |-> 2, active |-> TRUE, valid_from |-> None, valid_until |-> None,
       day_types |-> {"weekday", "weekend"}, priority |-> 10,
       time_windows |-> << >>, group_limits |-> << >>,
       daily_limit_minutes |-> Some(1)] }

\* DeviceCoupling rows of child 1 (at most one); the handler that writes
\* them stores the device ids of the request body as they come.
Couplings ==
    { None,
      Some([child_id |-> 1, device_ids |-> << 1, 2 >>, shared_budget |-> TRUE]),
      Some([child_id |-> 1, device_ids |-> << 1, 2 >>, shared_budget |-> FALSE]),
      Some([child_id |-> 1, device_ids |-> << 1 >>, shared_budget |-> TRUE]),
      Some([child_id |-> 1, device_ids |-> << 2, 3 >>, shared_budget |-> TRUE]) }

\* UsageEvent rows: started_at in seconds, duration_seconds.
UsageTables ==
    { {},
      { [id |-> 1, device_id |-> 1, started_at |-> Today * DaySeconds, duration_seconds |-> 119] },
      { [id |-> 1, device_id |-> 1, started_at |-> Today * DaySeconds, duration_seconds |-> 119],
        [id |-> 2, device_id |-> 2, started_at |-> Today * DaySeconds + 1, duration_seconds |-> 61] },
      { [id |-> 1, device_id |-> 1, started_at |-> Today * DaySeconds - 1, duration_seconds |-> 600],
        [id |-> 2, device_id |-> 2, started_at |-> Today * DaySeconds + 1, duration_seconds |-> 61] },
      { [id |-> 1, device_id |-> 1, started_at |-> Today * DaySeconds, duration_seconds |-> 119],
        [id |-> 2, device_id |-> 2, started_at |-> Today * DaySeconds + 1, duration_seconds |-> 61],
        [id |-> 3, device_id |-> 3, started_at |-> Today * DaySeconds, duration_seconds |-> 60] },
      { [id |-> 1, device_id |-> 1, started_at |-> Today * DaySeconds, duration_seconds |-> 119],
        [id |-> 3, device_id |-> 3, started_at |-> Today * DaySeconds, duration_seconds |-> 60] } }

\* date.weekday() of Today and the DayTypeOverride row of Today, if any.
Calendars ==
    { [weekday |-> 4, override |-> None],
      [weekday |-> 5, override |-> None],
      [weekday |-> 4, override |-> Some("holiday")],
      [weekday |-> 6, override |-> Some("weekday")] }

\* TAN rows of child 1: only the first is active and not expired.
ResolveTans ==
    << [child_id |-> 1, status |-> "active",   expires_at |-> Today * DaySeconds + 2],
       [child_id |-> 1, status |-> "active",   expires_at |-> Today * DaySeconds + 1],
       [child_id |-> 1, status |-> "redeemed", expires_at |-> Today * DaySeconds + 2],
       [child_id |-> 2, status |-> "active",   expires_at |-> Today * DaySeconds + 2] >>
ResolveNow == Today * DaySeconds + 1

get_today_day_type(db) ==
    IF db.calendar.override # None THEN db.calendar.override[1]
    ELSE IF db.calendar.weekday >= 5 THEN "weekend"
    ELSE "weekday"

empty_result ==
    [day_type |-> "unknown", time_windows |-> << >>, group_limits |-> << >>,
     daily_limit_minutes |-> None, remaining_minutes |-> None,
     active_tans |-> {}, coupled_devices |-> << >>, shared_budget |-> FALSE]

\* The WHERE clause of the TimeRule query.
DateValidFromOnly(r) == r.valid_from = None \/ r.valid_from[1] <= Today
DateValid(r) ==
    /\ r.valid_from = None \/ r.valid_from[1] <= Today
    /\ r.valid_until = None \/ r.valid_until[1] >= Today

RECURSIVE SortByPriority(_)
\* list.sort(key = priority, reverse = True): stable, highest first.
SortByPriority(rs) ==
    IF rs = << >> THEN << >>
    ELSE LET top == CHOOSE i \in 1..Len(rs) :
                        /\ \A j \in 1..Len(rs) : rs[j].priority <= rs[i].priority
                        /\ \A j \in 1..(i - 1) : rs[j].priority < rs[i].priority
         IN  << rs[top] >>
             \o SortByPriority([k \in 1..(Len(rs) - 1) |->
                                   IF k < top THEN rs[k] ELSE rs[k + 1]])

RECURSIVE MergeRules(_, _)
\* The loop over matching_rules: acc is (time_windows, group_limits,
\* daily_limit_minutes).
MergeRules(rs, acc) ==
    IF rs = << >> THEN acc
    ELSE LET r == Head(rs)
             lim == IF r.daily_limit_minutes = None THEN acc.daily_limit_minutes
                    ELSE IF acc.daily_limit_minutes = None THEN r.daily_limit_minutes
                    ELSE IF acc.daily_limit_minutes[1] <= r.daily_limit_minutes[1]
                    THEN acc.daily_limit_minutes
                    ELSE r.daily_limit_minutes
         IN  MergeRules(Tail(rs),
                 [time_windows |-> acc.time_windows \o r.time_windows,
                  group_limits |-> acc.group_limits \o r.group_limits,
                  daily_limit_minutes |-> lim])

SeqRange(q) == { q[i] : i \in 1..Len(q) }

RECURSIVE SumDurations(_)
SumDurations(evs) ==
    IF evs = {} THEN 0
    ELSE LET e == CHOOSE x \in evs : TRUE
         IN  e.duration_seconds + SumDurations(evs \ {e})

\* devices_to_count: the devices whose usage is summed.
DevicesToCountOwn(coupling, shared_budget, device_id) == {device_id}
DevicesToCount(coupling, shared_budget, device_id) ==
    IF shared_budget /\ coupling # None
    THEN SeqRange(coupling[1].device_ids)
    ELSE {device_id}

\* _compute_current_rules(db, device_id).
ComputeCurrentRules(db, device_id) ==
    IF device_id \notin DOMAIN DeviceRows THEN empty_result
    ELSE
    LET child_id == DeviceRows[device_id].child_id
        coupling == IF db.coupling # None /\ db.coupling[1].child_id = child_id
                    THEN db.coupling ELSE None
        inCoupling == coupling # None /\ device_id \in SeqRange(coupling[1].device_ids)
        coupled_devices == IF inCoupling
                           THEN SelectSeq(coupling[1].device_ids, LAMBDA x : x # device_id)
                           ELSE << >>
        shared_budget == IF inCoupling THEN coupling[1].shared_budget ELSE FALSE
        day_type == get_today_day_type(db)
        Selected(r) == r.child_id = child_id /\ r.active /\ DateValid(r)
        all_rules == SelectSeq(db.rules, Selected)
        matching_rules == SortByPriority(
                              SelectSeq(all_rules, LAMBDA r : day_type \in r.day_types))
        merged == MergeRules(matching_rules,
                      [time_windows |-> << >>, group_limits |-> << >>,
                       daily_limit_minutes |-> None])
        devices_to_count == DevicesToCount(coupling, shared_budget, device_id)
        total_seconds == SumDurations({ e \in db.usage :
                                          /\ e.device_id \in devices_to_count
                                          /\ e.started_at >= Today * DaySeconds })
        used_minutes == total_seconds \div 60
        remaining == IF merged.daily_limit_minutes = None THEN None
                     ELSE IF merged.daily_limit_minutes[1] - used_minutes >= 0
                     THEN Some(merged.daily_limit_minutes[1] - used_minutes)
                     ELSE Some(0)
    IN  [day_type |-> day_type,
         time_windows |-> merged.time_windows,
         group_limits |-> merged.group_limits,
         daily_limit_minutes |-> merged.daily_limit_minutes,
         remaining_minutes |-> remaining,
         active_tans |-> { i \in 1..Len(ResolveTans) :
                             /\ ResolveTans[i].child_id = child_id
                             /\ ResolveTans[i].status = "active"
                             /\ ResolveTans[i].expires_at > ResolveNow },
         coupled_devices |-> coupled_devices,
         shared_budget |-> shared_budget]

\* One call of _compute_current_rules for device id d.
Resolve(d) ==
    /\ rdb # None
    /\ resolved[d] = None
    /\ resolved' = [resolved EXCEPT ![d] = Some(ComputeCurrentRules(rdb[1], d))]
    /\ UNCHANGED << coreVars, laterVars, agentVars, parentVars, cacheVars, regVars, rdb >>

----------------------------------------------------------------------------
\* The device side of the connection registry
\* (services/connection_manager.py) and the WebSocket handlers that use it
\* (routers/agent.py, websocket_endpoint).  A socket is the pair of its device
\* and the number of the connection; device 1 connects twice.  The bodies
\* under the registry lock hold no await, so each is one step.  Task t sends
\* message t.

RegDevices == {1, 2, 3}
RegChildren == {1, 2}
RegChild == [d \in RegDevices |-> IF d = 3 THEN 2 ELSE 1]
RegSockets == { << 1, 1 >>, << 1, 2 >>, << 2, 1 >>, << 3, 1 >> }
RegTasks == {1, 2}
\* The tasks that call send_to_child_devices; the others call send_to_device.
ChildSendTasks == {1}

IdleTask ==
    [op |-> "none", pc |-> "idle", dev |-> 0, child |-> 0, target |-> None,
     todo |-> {}, snap |-> {}, snapSock |-> << >>, count |-> 0, ok |-> FALSE,
     known |-> {}, earlier |-> {}, pendingAtEnd |-> {}]

\* _child_devices.get(child_id, set())
ChildDevicesOf(c) == IF c \in DOMAIN child_devices THEN child_devices[c] ELSE {}

\* The failure branch without the loop over the child sets.
DiscardNowhere(cd, d) == cd

\* devices.discard(device_id) for every child, deleting the emptied keys.
DiscardEverywhere(cd, d) ==
    [c \in { k \in DOMAIN cd : cd[k] \ {d} # {} } |-> cd[c] \ {d}]

\* The sockets whose connect has been called so far.
Registered == { s \in RegSockets : sock[s] # "new" }

\* The tasks inside send_to_device for device d, at the await of send_json.
Sending(d) == { t \in RegTasks : task[t].pc = "sending" /\ task[t].dev = d }

\* websocket_endpoint after auth_ok: connection_manager.connect.
KeepFirstSocket(s) == IF connections[s[1]] = None THEN Some(s) ELSE connections[s[1]]
RegisterSocket(s) == Some(s)
ConnectDevice(s) ==
    /\ sock[s] = "new"
    /\ s[2] > 1 => sock[<< s[1], s[2] - 1 >>] # "new"
    /\ sock' = [sock EXCEPT ![s] = "open"]
    /\ connections' = [connections EXCEPT ![s[1]] = RegisterSocket(s)]
    /\ child_devices' =
           [c \in DOMAIN child_devices \cup {RegChild[s[1]]} |->
               IF c = RegChild[s[1]] THEN ChildDevicesOf(c) \cup {s[1]}
               ELSE child_devices[c]]
    /\ UNCHANGED << coreVars, laterVars, agentVars, parentVars, cacheVars, ruleVars, inbox, task >>

\* The peer of an open socket goes away: the next send on it raises.
SocketDies(s) ==
    /\ sock[s] = "open"
    /\ sock' = [sock EXCEPT ![s] = "dead"]
    /\ UNCHANGED << coreVars, laterVars, agentVars, parentVars, cacheVars, ruleVars, connections, child_devices, inbox, task >>

\* websocket_endpoint leaves its loop: connection_manager.disconnect in the
\* finally block, with the device id and child id of the handler.
DisconnectDevice(s) ==
    /\ sock[s] \in {"open", "dead"}
    /\ sock' = [sock EXCEPT ![s] = "closed"]
    /\ connections' = [connections EXCEPT ![s[1]] = None]
    /\ child_devices' =
           LET c == RegChild[s[1]]
           IN  IF c \notin DOMAIN child_devices THEN child_devices
               ELSE IF child_devices[c] \ {s[1]} = {}
               THEN [k \in DOMAIN child_devices \ {c} |-> child_devices[k]]
               ELSE [child_devices EXCEPT ![c] = @ \ {s[1]}]
    /\ UNCHANGED << coreVars, laterVars, agentVars, parentVars, cacheVars, ruleVars, inbox, task >>

\* Task t can take the next call: it is the first task without one.
FreeTask(t) ==
    /\ task[t].pc = "idle"
    /\ \A u \in RegTasks : u < t => task[u].pc # "idle"

\* get_connected_count(child_id)
GetConnectedCount(c) == Cardinality(ChildDevicesOf(c))

\* send_to_device up to the await of websocket.send_json: the lookup.
SendBegin(t, d) ==
    /\ FreeTask(t)
    /\ task' = [task EXCEPT ![t] =
                   [IdleTask EXCEPT !.op = "send", !.dev = d,
                                    !.target = connections[d],
                                    !.pc = IF connections[d] = None THEN "done"
                                           ELSE "sending",
                                    !.known = { s \in Registered : s[1] = d },
                                    !.earlier = Sending(d)]]
    /\ UNCHANGED << coreVars, laterVars, agentVars, parentVars, cacheVars, ruleVars, connections, child_devices, sock, inbox >>

\* The outcome of websocket.send_json(message) on socket s for the registry:
\* the socket takes the message, or the send raises and the device is
\* removed from both indices under the lock.
SendOutcome(s, m) ==
    IF sock[s] = "open"
    THEN /\ inbox' = [inbox EXCEPT ![s] = Append(@, m)]
         /\ UNCHANGED << connections, child_devices >>
    ELSE /\ connections' = [connections EXCEPT ![s[1]] = None]
         /\ child_devices' = DiscardEverywhere(child_devices, s[1])
         /\ UNCHANGED inbox

\* send_to_device from the await to its return.
SendFinish(t) ==
    /\ task[t].op = "send"
    /\ task[t].pc = "sending"
    /\ SendOutcome(task[t].target[1], t)
    /\ task' = [task EXCEPT ![t].pc = "done",
                            ![t].ok = (sock[task[t].target[1]] = "open"),
                            ![t].pendingAtEnd = Sending(task[t].dev) \ {t}]
    /\ UNCHANGED << coreVars, laterVars, agentVars, parentVars, cacheVars, ruleVars, sock >>

\* device_ids of send_to_child_devices: the copy of the child's set.
AllConnected(c) == { d \in RegDevices : connections[d] # None }
ChildSnapshot(c) == ChildDevicesOf(c)

\* The loop of send_to_child_devices up to its next await: the devices
\* of skip come first in the iteration order and have no socket, so that
\* send_to_device returns False for them at once; then the lookup finds
\* the socket of device d, or the loop is over.
LoopAdvance(t, rec) ==
    \E skip \in SUBSET { d \in rec.todo : connections[d] = None } :
        \/ \E d \in rec.todo \ skip :
              /\ connections[d] # None
              /\ task' = [task EXCEPT ![t] =
                             [rec EXCEPT !.pc = "sending", !.dev = d,
                                         !.target = connections[d],
                                         !.todo = (rec.todo \ skip) \ {d}]]
        \/ /\ skip = rec.todo
           /\ task' = [task EXCEPT ![t] =
                          [rec EXCEPT !.pc = "done", !.todo = {}, !.target = None]]

\* send_to_child_devices(c, message) up to its first await.
ChildSendBegin(t, c) ==
    /\ FreeTask(t)
    /\ LoopAdvance(t, [IdleTask EXCEPT !.op = "child", !.child = c,
                                       !.todo = ChildSnapshot(c),
                                       !.snap = ChildSnapshot(c),
                                       !.snapSock = connections])
    /\ UNCHANGED << coreVars, laterVars, agentVars, parentVars, cacheVars, ruleVars, connections, child_devices, sock, inbox >>

\* ... and from the return of one send_json to the next await or the
\* return of the count.
ChildSendStep(t) ==
    /\ task[t].op = "child"
    /\ task[t].pc = "sending"
    /\ SendOutcome(task[t].target[1], t)
    /\ LoopAdvance(t, [task[t] EXCEPT
                          !.count = IF sock[task[t].target[1]] = "open"
                                    THEN @ + 1 ELSE @])
    /\ UNCHANGED << coreVars, laterVars, agentVars, parentVars, cacheVars, ruleVars, sock >>

----------------------------------------------------------------------------
\* The parent side of the registry (connect_parent, disconnect_parent,
\* notify_parents) and the portal WebSocket handler (routers/portal_ws.py).
\* Parent sockets 1 and 2 belong to family 1, socket 3 to family 2; call t
\* sends message t.

ParentSockets == {1, 2, 3}
Families == {1, 2}
ParentFamily == [p \in ParentSockets |-> IF p = 3 THEN 2 ELSE 1]
NotifyTasks == {1, 2}

IdleNotifier ==
    [pc |-> "idle", family |-> 0, snap |-> {}, todo |-> {}, cur |-> 0,
     dead |-> {}, count |-> 0]

\* _parent_connections.get(family_id, set())
ParentsOf(f) == IF f \in DOMAIN parent_connections THEN parent_connections[f] ELSE {}

\* disconnect_parent(f, ws) for every ws of gone: discard, and delete the
\* key of a set that became empty.
WithoutParents(pcs, f, gone) ==
    IF f \notin DOMAIN pcs \/ gone = {} THEN pcs
    ELSE IF pcs[f] \ gone = {} THEN [k \in DOMAIN pcs \ {f} |-> pcs[k]]
    ELSE [pcs EXCEPT ![f] = @ \ gone]

ConnectParent(p) ==
    /\ psock[p] = "new"
    /\ psock' = [psock EXCEPT ![p] = "open"]
    /\ parent_connections' =
           [f \in DOMAIN parent_connections \cup {ParentFamily[p]} |->
               IF f = ParentFamily[p] THEN ParentsOf(f) \cup {p}
               ELSE parent_connections[f]]
    /\ UNCHANGED << coreVars, laterVars, agentVars, cacheVars, ruleVars, regVars, pinbox, notifier >>

\* The portal goes away: the next send on the socket raises.
ParentDies(p) ==
    /\ psock[p] = "open"
    /\ psock' = [psock EXCEPT ![p] = "dead"]
    /\ UNCHANGED << coreVars, laterVars, agentVars, cacheVars, ruleVars, regVars, parent_connections, pinbox, notifier >>

\* The handler leaves its loop: disconnect_parent in the finally block.
DisconnectParent(p) ==
    /\ psock[p] \in {"open", "dead"}
    /\ psock' = [psock EXCEPT ![p] = "closed"]
    /\ parent_connections' = WithoutParents(parent_connections, ParentFamily[p], {p})
    /\ UNCHANGED << coreVars, laterVars, agentVars, cacheVars, ruleVars, regVars, pinbox, notifier >>

\* sockets of notify_parents: the copy of the family's set.
AllParents(f) == UNION { parent_connections[k] : k \in DOMAIN parent_connections }
ParentSnapshot(f) == ParentsOf(f)

\* The loop of notify_parents up to its next await, or, when no socket is
\* left, the disconnect_parent of every dead socket and the return.
NotifyAdvance(t, rec) ==
    IF rec.todo # {}
    THEN /\ \E p \in rec.todo :
              notifier' = [notifier EXCEPT ![t] =
                              [rec EXCEPT !.pc = "sending", !.cur = p,
                                          !.todo = rec.todo \ {p}]]
         /\ UNCHANGED parent_connections
    ELSE /\ notifier' = [notifier EXCEPT ![t] = [rec EXCEPT !.pc = "done", !.cur = 0]]
         /\ parent_connections' = WithoutParents(parent_connections, rec.family, rec.dead)

\* notify_parents(f, message) up to its first await.
NotifyBegin(t, f) ==
    /\ notifier[t].pc = "idle"
    /\ \A u \in NotifyTasks : u < t => notifier[u].pc # "idle"
    /\ NotifyAdvance(t, [IdleNotifier EXCEPT !.family = f,
                                             !.snap = ParentSnapshot(f),
                                             !.todo = ParentSnapshot(f)])
    /\ UNCHANGED << coreVars, laterVars, agentVars, cacheVars, ruleVars, regVars, psock, pinbox >>

\* ... and from the return of one send_json to the next await or the
\* return of the count.
NotifyStep(t) ==
    /\ notifier[t].pc = "sending"
    /\ LET p == notifier[t].cur
       IN  IF psock[p] = "open"
           THEN /\ pinbox' = [pinbox EXCEPT ![p] = Append(@, t)]
                /\ NotifyAdvance(t, [notifier[t] EXCEPT !.count = @ + 1])
           ELSE /\ UNCHANGED pinbox
                /\ NotifyAdvance(t, [notifier[t] EXCEPT !.dead = @ \cup {p}])
    /\ UNCHANGED << coreVars, laterVars, agentVars, cacheVars, ruleVars, regVars, psock >>

----------------------------------------------------------------------------
\* The Windows agent (agents/windows/agent/main.py): the dispatch of the
\* messages of its WebSocket, the rule poll and the application of a rules
\* snapshot to the blocker.  A group_limits entry is a JSON object, here a
\* function of the keys it has.

AgentGroups == {"g1", "g2"}

\* Rules snapshots the agent is handed: group_limits as the server resolves
\* them (group_id, max_minutes: schemas/time_rule.py, GroupLimit), one entry
\* or one per merged rule, and with the keys _apply_rules reads.
AgentSnapshots ==
    { [group_limits |-> << >>],
      [group_limits |-> << [group_id |-> "g1", max_minutes |-> 30] >>],
      [group_limits |-> << [group_id |-> "g1", max_minutes |-> 30],
                           [group_id |-> "g1", max_minutes |-> 60] >>],
      [group_limits |-> << [app_group_id |-> "g1", limit_minutes |-> 30, used_minutes |-> 30] >>],
      [group_limits |-> << [app_group_id |-> "g1", limit_minutes |-> 30, used_minutes |-> 10],
                           [app_group_id |-> "g2", limit_minutes |-> 0, used_minutes |-> 5] >>],
      [group_limits |-> << [app_group_id |-> "g1", limit_minutes |-> 30, used_minutes |-> 30],
                           [app_group_id |-> "g1", limit_minutes |-> 60, used_minutes |-> 30] >>] }

\* The messages the server pushes to a device socket
\* (services/rule_push_service.py).
ServerMessages ==
    { [type |-> "rules_updated", rules |-> r] : r \in AgentSnapshots }
    \cup { [type |-> "tan_activated", rules |-> [group_limits |-> << >>]] }

\* dict.get(key, default)
DictGet(d, key, default) == IF key \in DOMAIN d THEN d[key] ELSE default

RECURSIVE ApplyGroupLimits(_, _)
\* The loop of _apply_rules over group_limits: the blocked groups after it.
ApplyGroupLimits(entries, blocked) ==
    IF entries = << >> THEN blocked
    ELSE LET gl == Head(entries)
             limit == DictGet(gl, "limit_minutes", 0)
             used == DictGet(gl, "used_minutes", 0)
             hasGid == "app_group_id" \in DOMAIN gl
         IN  ApplyGroupLimits(Tail(entries),
                 IF hasGid /\ used >= limit /\ limit > 0
                 THEN blocked \cup {gl["app_group_id"]}
                 ELSE IF hasGid THEN blocked \ {gl["app_group_id"]}
                 ELSE blocked)

\* _apply_rules(rules)
ApplyRules(rules) ==
    /\ agent_rules' = Some(rules)
    /\ blocked_groups' = ApplyGroupLimits(rules.group_limits, blocked_groups)

\* _fetch_and_cache_rules: the REST call returns a snapshot, which is
\* applied and cached, or fails, and the cached snapshot is applied.
FetchOutcome ==
    \/ \E r \in AgentSnapshots :
          /\ ApplyRules(r)
          /\ cached_rules' = Some(r)
          /\ online' = TRUE
    \/ /\ cached_rules # None
       /\ ApplyRules(cached_rules[1])
       /\ online' = FALSE
       /\ UNCHANGED cached_rules
    \/ /\ cached_rules = None
       /\ online' = FALSE
       /\ UNCHANGED << agent_rules, blocked_groups, cached_rules >>

\* The rule poll loop.
FetchAndCacheRules ==
    /\ FetchOutcome
    /\ UNCHANGED << coreVars, laterVars, cacheVars, ruleVars, regVars, parentVars, ws_in >>

\* The server pushes a message to the agent's socket.
ServerPush(m) ==
    /\ Len(ws_in) < MaxQueued
    /\ ws_in' = Append(ws_in, m)
    /\ UNCHANGED << coreVars, laterVars, cacheVars, ruleVars, regVars, parentVars,
                    agent_rules, blocked_groups, cached_rules, online >>

\* The caller is not inside an enforce call of its own (the read loop
\* awaits the handler of a message before it reads the next).
NotEnforcing(by) == killer.pc = "idle" \/ killer.by # by

\* _read_loop takes the next message and _on_ws_message dispatches on its
\* type.
OnWsMessage ==
    /\ NotEnforcing("ws")
    /\ ws_in # << >>
    /\ ws_in' = Tail(ws_in)
    /\ LET msg == Head(ws_in)
       IN  IF msg.type = "rule_update"
           THEN /\ ApplyRules(msg.rules)
                /\ cached_rules' = Some(msg.rules)
                /\ UNCHANGED online
           ELSE IF msg.type = "tan_redeemed"
           THEN FetchOutcome
           ELSE UNCHANGED << agent_rules, blocked_groups, cached_rules, online >>
    /\ UNCHANGED << coreVars, laterVars, cacheVars, ruleVars, regVars, parentVars >>

----------------------------------------------------------------------------
\* The blocker of the Windows agent (blocker.py) and its callers: the
\* enforce loop, the block_app message and the remote control (POST /block).
\* One enforce call that kills is in flight at a time; its kill runs in the
\* executor thread, step by step, against the device's process table.

\* The processes of the device: pids 1 and 2 run the game (pid 2 elevated,
\* psutil.AccessDenied on terminate), pid 3 an untracked editor.
Pids == {1, 2, 3}
ProcName == [p \in Pids |-> IF p = 1 THEN "game.exe"
                            ELSE IF p = 2 THEN "Game.exe" ELSE "note.exe"]
Protected == {2}

\* str.lower()
Lower(s) == IF s = "Game.exe" THEN "game.exe" ELSE s

\* ProcessMonitor._map_to_group: config.app_group_map.get(executable.lower())
MapToGroup(executable) ==
    IF Lower(executable) = "game.exe" THEN Some("g1") ELSE None

\* The AppSession the monitor builds for a foreground process.
SessionOf(p) ==
    [executable |-> ProcName[p], app_group_id |-> MapToGroup(ProcName[p]),
     pid |-> p]

\* The last instant of the agent's clock and the length of a TOTP override.
MaxAgentClock == 2
OverrideTicks == 1

IdleKiller ==
    [pc |-> "idle", by |-> "none", session |-> None, blocked |-> {},
     events |-> << >>, todo |-> << >>, killed |-> 0, ret |-> "none",
     gone |-> FALSE]

\* A variant of is_blocked that takes every session for blocked.
IsBlockedAlways(app_group_id, blocked) == TRUE

\* AppBlocker.is_blocked
IsBlocked(app_group_id, blocked) ==
    IF app_group_id = None THEN FALSE ELSE app_group_id[1] \in blocked

\* AppBlocker.enforce(monitor.current_session), up to its await: a no-op
\* for no session or a group that is not blocked, else the kill is handed
\* to the executor.  blocked is blocked_groups at the call.
Enforce(by, blocked) ==
    IF current_session # None
       /\ IsBlocked(current_session[1].app_group_id, blocked)
    THEN /\ killer.pc = "idle"
         /\ killer' = [IdleKiller EXCEPT !.pc = "queued", !.by = by,
                          !.session = current_session, !.blocked = blocked]
         /\ UNCHANGED last_enforce
    ELSE /\ last_enforce' = Some([by |-> by, session |-> current_session,
                                  blocked |-> blocked, events |-> << >>])
         /\ UNCHANGED killer

\* The pids process_iter yields whose name matches, in pid order.
MatchingPids(executable) ==
    SelectSeq(<< 1, 2, 3 >>,
              LAMBDA p : alive[p] /\ Lower(ProcName[p]) = Lower(executable))

\* kill_by_executable starts in the executor thread.
KillByExecutable ==
    /\ killer.pc = "queued"
    /\ LET executable == killer.session[1].executable
           todo == MatchingPids(executable)
       IN  killer' = [killer EXCEPT
                         !.events = Append(@, << "kill", executable >>),
                         !.todo = todo,
                         !.pc = IF todo = << >> THEN "callback" ELSE "lookup"]
    /\ UNCHANGED << serverVars, offlineVars, lifeVars, agentVars, current_session,
                    totp_override_until, agent_now, alive, last_enforce >>

\* kill_process returns ret; gone tells whether the process is no longer
\* alive at that moment.
KillReturns(ret, al) ==
    killer' = [killer EXCEPT !.pc = "returned", !.ret = ret,
                             !.gone = ~al[Head(killer.todo)]]

KillUnchanged ==
    UNCHANGED << serverVars, offlineVars, lifeVars, agentVars, current_session,
                 totp_override_until, agent_now, last_enforce >>

\* kill_process: psutil.Process(pid)
KillLookup ==
    /\ killer.pc = "lookup"
    /\ IF alive[Head(killer.todo)]
       THEN killer' = [killer EXCEPT !.pc = "name"]
       ELSE KillReturns("True", alive)
    /\ UNCHANGED alive
    /\ KillUnchanged

\* kill_process: proc.name(), which raises for a process that is gone
KillName ==
    /\ killer.pc = "name"
    /\ IF alive[Head(killer.todo)]
       THEN killer' = [killer EXCEPT !.pc = "terminate"]
       ELSE KillReturns("raised", alive)
    /\ UNCHANGED alive
    /\ KillUnchanged

\* kill_process: proc.terminate()
KillTerminate ==
    /\ killer.pc = "terminate"
    /\ IF alive[Head(killer.todo)] /\ Head(killer.todo) \notin Protected
       THEN killer' = [killer EXCEPT !.pc = "wait"]
       ELSE KillReturns("False", alive)
    /\ UNCHANGED alive
    /\ KillUnchanged

\* kill_process: proc.wait(timeout=graceful_timeout); the process exits
\* in time or the timeout expires
KillWait ==
    /\ killer.pc = "wait"
    /\ \/ /\ alive' = [alive EXCEPT ![Head(killer.todo)] = FALSE]
          /\ KillReturns("True", alive')
       \/ /\ alive[Head(killer.todo)]
          /\ killer' = [killer EXCEPT !.pc = "kill"]
          /\ UNCHANGED alive
    /\ KillUnchanged

\* kill_process: proc.kill()
KillForce ==
    /\ killer.pc = "kill"
    /\ IF alive[Head(killer.todo)]
       THEN killer' = [killer EXCEPT !.pc = "wait2"]
       ELSE KillReturns("False", alive)
    /\ UNCHANGED alive
    /\ KillUnchanged

\* kill_process: proc.wait(timeout=2.0) after the force kill
KillWaitForced ==
    /\ killer.pc = "wait2"
    /\ \/ /\ alive' = [alive EXCEPT ![Head(killer.todo)] = FALSE]
          /\ KillReturns("True", alive')
       \/ /\ alive[Head(killer.todo)]
          /\ KillReturns("False", alive)
          /\ UNCHANGED alive
    /\ KillUnchanged

\* kill_by_executable: count the success and go on with the next process.
KillNext ==
    /\ killer.pc = "returned"
    /\ killer' = [killer EXCEPT
                     !.killed = IF killer.ret = "True" THEN @ + 1 ELSE @,
                     !.todo = Tail(@),
                     !.ret = "none", !.gone = FALSE,
                     !.pc = IF Tail(killer.todo) = << >> THEN "callback"
                            ELSE "lookup"]
    /\ UNCHANGED alive
    /\ KillUnchanged

\* The steps of kill_by_executable in the executor thread.
KillSteps ==
    \/ KillByExecutable
    \/ KillLookup
    \/ KillName
    \/ KillTerminate
    \/ KillWait
    \/ KillForce
    \/ KillWaitForced
    \/ KillNext

\* enforce after its await: on_block_action(executable, group_id)
EnforceCallback ==
    /\ killer.pc = "callback"
    /\ LET s == killer.session[1]
       IN  last_enforce' =
               Some([by |-> killer.by, session |-> killer.session,
                     blocked |-> killer.blocked,
                     events |-> Append(killer.events,
                         << "callback", s.executable, s.app_group_id >>)])
    /\ killer' = IdleKiller
    /\ UNCHANGED << serverVars, offlineVars, lifeVars, agentVars, current_session,
                    totp_override_until, agent_now, alive >>

\* A process exits by itself.
ProcessExits(p) ==
    /\ alive[p]
    /\ alive' = [alive EXCEPT ![p] = FALSE]
    /\ UNCHANGED << serverVars, offlineVars, lifeVars, agentVars, current_session,
                    totp_override_until, agent_now, killer, last_enforce >>

\* The agent's clock advances.
AgentClockTick ==
    /\ agent_now < MaxAgentClock
    /\ agent_now' = agent_now + 1
    /\ UNCHANGED << serverVars, offlineVars, lifeVars, agentVars, current_session,
                    totp_override_until, alive, killer, last_enforce >>

\* A variant of the loop's test that takes no override for expired.
OverrideNeverOver(until, clock) == until = None

\* self._totp_override_until is None or now >= self._totp_override_until
OverrideOver(until, clock) == until = None \/ clock >= until[1]

\* One iteration of _enforce_loop.
EnforceTick ==
    /\ NotEnforcing("loop")
    /\ IF OverrideOver(totp_override_until, agent_now)
       THEN /\ totp_override_until' = None
            /\ Enforce("loop", blocked_groups)
       ELSE UNCHANGED << totp_override_until, killer, last_enforce >>
    /\ UNCHANGED << serverVars, offlineVars, lifeVars, agentVars, current_session, agent_now, alive >>

\* _on_ws_message for a block_app message.
OnWsBlockApp(g) ==
    /\ NotEnforcing("ws")
    /\ blocked_groups' = blocked_groups \cup {g}
    /\ Enforce("ws", blocked_groups')
    /\ UNCHANGED << serverVars, offlineVars, lifeVars, ws_in, agent_rules, cached_rules, online,
                    current_session, totp_override_until, agent_now, alive >>

\* _on_ws_message for an unblock_app message.
OnWsUnblockApp(g) ==
    /\ NotEnforcing("ws")
    /\ blocked_groups' = blocked_groups \ {g}
    /\ UNCHANGED << serverVars, ws_in, agent_rules, cached_rules, online, laterVars >>

\* remote_control.py, POST /block and POST /unblock.
RemoteBlock(g) ==
    /\ NotEnforcing("remote")
    /\ blocked_groups' = blocked_groups \cup {g}
    /\ Enforce("remote", blocked_groups')
    /\ UNCHANGED << serverVars, offlineVars, lifeVars, ws_in, agent_rules, cached_rules, online,
                    current_session, totp_override_until, agent_now, alive >>

RemoteUnblock(g) ==
    /\ blocked_groups' = blocked_groups \ {g}
    /\ UNCHANGED << serverVars, ws_in, agent_rules, cached_rules, online, laterVars >>

\* _on_totp_entered with a code that verifies: the override starts and
\* every blocked group is unblocked.
OnTotpEntered ==
    /\ totp_override_until' = Some(agent_now + OverrideTicks)
    /\ blocked_groups' = {}
    /\ UNCHANGED << serverVars, offlineVars, lifeVars, ws_in, agent_rules, cached_rules, online,
                    current_session, agent_now, alive, killer, last_enforce >>

\* A TOTP code entered while the override it starts can still expire on
\* the agent's clock.
TotpEnteredInTime ==
    /\ agent_now + OverrideTicks <= MaxAgentClock
    /\ OnTotpEntered

\* The groups _apply_rules blocks for a rules snapshot.
OverLimitGroups(rules) ==
    IF rules = None THEN {} ELSE ApplyGroupLimits(rules[1].group_limits, {})

----------------------------------------------------------------------------
\* The offline cache of the agent (offline_cache.py, table pending_events),
\* the REST calls that fall back to it and the sync loop that drains it.
\* An event is identified by the order in which the agent produced it; a
\* row's id is its position in pending_events (AUTOINCREMENT).  cleanup
\* removes synced rows older than seven days, which no run here reaches.

\* The events the agent produces in a run.
MaxEvents == 3

\* get_pending_events(limit=50), scaled down.
SyncLimit == 2

IdleSync ==
    [pc |-> "idle", pending |-> << >>, synced_ids |-> << >>,
     attempts |-> << >>]

\* What a REST call does: httpx.HTTPError when the server cannot be reached,
\* httpx.HTTPStatusError (raise_for_status) when it answers with an error
\* status, else the response.
RestCall(accept) ==
    IF ~server_up THEN "HTTPError"
    ELSE IF ~accept THEN "HTTPStatusError"
    ELSE "ok"

\* A variant of _insert_event that stores nothing.
InsertNothing(rows, n, event_type, accept) == rows

\* OfflineCache._insert_event
InsertEvent(rows, n, event_type, accept) ==
    Append(rows, [n |-> n, event_type |-> event_type, accept |-> accept,
                  synced |-> FALSE])

\* A variant of get_pending_events that returns the newest rows first.
NewestPendingEvents(limit) ==
    LET ids == SelectSeq([i \in 1..Len(pending_events) |->
                             Len(pending_events) + 1 - i],
                         LAMBDA i : ~pending_events[i].synced)
    IN  SubSeq(ids, 1, IF Len(ids) < limit THEN Len(ids) ELSE limit)

\* OfflineCache.get_pending_events: WHERE synced = 0 ORDER BY id ASC LIMIT ?
GetPendingEvents(limit) ==
    LET ids == SelectSeq([i \in 1..Len(pending_events) |-> i],
                         LAMBDA i : ~pending_events[i].synced)
    IN  SubSeq(ids, 1, IF Len(ids) < limit THEN Len(ids) ELSE limit)

\* OfflineCache.pending_count
PendingCount ==
    Cardinality({ i \in 1..Len(pending_events) : ~pending_events[i].synced })

\* A REST call with the fall-back of _send_usage_event and _heartbeat_loop:
\* the server takes the event, or the event is queued and the agent is
\* set offline.
SendOrQueue(event_type, accept, onSuccess) ==
    /\ produced < MaxEvents
    /\ produced' = produced + 1
    /\ IF RestCall(accept) = "ok"
       THEN /\ server_log' = Append(server_log, produced + 1)
            /\ online' = (online \/ onSuccess)
            /\ UNCHANGED pending_events
       ELSE /\ pending_events' =
                  InsertEvent(pending_events, produced + 1, event_type, accept)
            /\ online' = FALSE
            /\ UNCHANGED server_log

\* _send_usage_event; the server may reject the event (its app group id is
\* no UUID, or the app group was deleted).
SendUsageEvent(accept) ==
    /\ SendOrQueue("usage_event", accept, FALSE)
    /\ UNCHANGED << serverVars, ws_in, agent_rules, blocked_groups,
                    cached_rules, enforceVars, lifeVars, server_up, sync >>

\* One iteration of _heartbeat_loop.
HeartbeatTick ==
    /\ SendOrQueue("heartbeat", TRUE, TRUE)
    /\ UNCHANGED << serverVars, ws_in, agent_rules, blocked_groups,
                    cached_rules, enforceVars, lifeVars, server_up, sync >>

\* The connection to the server is lost or comes back.
ServerFlips ==
    /\ server_up' = ~server_up
    /\ UNCHANGED << serverVars, agentVars, enforceVars, lifeVars, pending_events,
                    produced, server_log, sync >>

SyncUnchanged ==
    UNCHANGED << serverVars, agentVars, enforceVars, lifeVars, server_up, produced >>

\* _sync_loop after its 30 s wait: read the pending events.
SyncStart ==
    /\ sync.pc = "idle"
    /\ GetPendingEvents(SyncLimit) # << >>
    /\ sync' = [IdleSync EXCEPT !.pc = "post",
                                !.pending = GetPendingEvents(SyncLimit)]
    /\ UNCHANGED << pending_events, server_log >>
    /\ SyncUnchanged

\* _sync_loop: POST the next event of the batch; a failure ends the batch.
SyncPost ==
    /\ sync.pc = "post"
    /\ LET id == Head(sync.pending)
           row == pending_events[id]
           outcome == RestCall(row.accept)
       IN  IF outcome = "ok"
           THEN /\ server_log' = Append(server_log, row.n)
                /\ sync' = [sync EXCEPT
                               !.pending = Tail(@),
                               !.synced_ids = Append(@, id),
                               !.attempts = Append(@, << id, outcome >>),
                               !.pc = IF Tail(sync.pending) = << >>
                                      THEN "mark" ELSE "post"]
           ELSE /\ sync' = [sync EXCEPT
                               !.attempts = Append(@, << id, outcome >>),
                               !.pc = "mark"]
                /\ UNCHANGED server_log
    /\ UNCHANGED pending_events
    /\ SyncUnchanged

\* _sync_loop: mark_synced_batch(synced_ids), cleanup(days=7).
SyncMark ==
    /\ sync.pc = "mark"
    /\ pending_events' =
          [i \in 1..Len(pending_events) |->
              IF \E k \in 1..Len(sync.synced_ids) : sync.synced_ids[k] = i
              THEN [pending_events[i] EXCEPT !.synced = TRUE]
              ELSE pending_events[i]]
    /\ sync' = IdleSync
    /\ UNCHANGED server_log
    /\ SyncUnchanged

\* POSTs the server takes without the agent learning of it, in one run.
MaxResends == 2

\* The server's table still has room in this run.
CanResend == Len(server_log) < MaxEvents + MaxResends

\* _send_usage_event when the response is lost: the server has committed
\* the event, the REST call raises (httpx.ReadTimeout after 30 s, or the
\* connection breaks) and the event is queued.
SendResponseLost ==
    /\ server_up
    /\ CanResend
    /\ produced < MaxEvents
    /\ produced' = produced + 1
    /\ server_log' = Append(server_log, produced + 1)
    /\ pending_events' =
           InsertEvent(pending_events, produced + 1, "usage_event", TRUE)
    /\ online' = FALSE
    /\ UNCHANGED << serverVars, ws_in, agent_rules, blocked_groups,
                    cached_rules, enforceVars, lifeVars, server_up, sync >>

\* _sync_loop: the server takes the next event of the batch and the
\* response is lost; the exception ends the batch.
SyncResponseLost ==
    /\ sync.pc = "post"
    /\ server_up
    /\ CanResend
    /\ LET id == Head(sync.pending)
           row == pending_events[id]
       IN  /\ row.accept
           /\ server_log' = Append(server_log, row.n)
           /\ sync' = [sync EXCEPT
                          !.attempts = Append(@, << id, "HTTPError" >>),
                          !.pc = "mark"]
    /\ UNCHANGED pending_events
    /\ SyncUnchanged

\* The agent is stopped while the sync loop is between a POST that
\* succeeded and mark_synced_batch (the task is cancelled at the await of
\* the next POST, or the process is killed); the agent starts again with
\* the rows of its cache as they are.
SyncStopped ==
    /\ sync.pc \in {"post", "mark"}
    /\ sync.synced_ids # << >>
    /\ CanResend
    /\ sync' = IdleSync
    /\ UNCHANGED << pending_events, server_log >>
    /\ SyncUnchanged


----------------------------------------------------------------------------
\* The life cycle of the agent (HeimdallAgent.start): the tasks it creates,
\* the stop signal and the cancellation of the tasks.  A task runs from one
\* await to the next; a task that was cancelled gets CancelledError at the
\* await it is suspended in, instead of that await's result.  The bodies of
\* the four interval loops are summed up as one await ("work").

AgentTasks == {"monitor", "enforce", "websocket", "heartbeat", "rule-poll",
               "sync"}
IntervalLoops == {"enforce", "heartbeat", "rule-poll", "sync"}

Finished(t) == atask[t].pc \in {"done", "cancelled"}

\* The task t is suspended at pc and start() has not cancelled it.
At(t, pc) == atask[t].pc = pc /\ ~atask[t].cancel

Goto(t, pc) == atask' = [atask EXCEPT ![t].pc = pc]

StopUnchanged ==
    UNCHANGED << serverVars, ws_in, agent_rules, blocked_groups,
                 cached_rules, totp_override_until, agent_now, alive, killer,
                 last_enforce, server_up, sync >>

\* _request_stop: the tray's quit entry, a signal or the service manager.
RequestStop ==
    /\ ~stop_event
    /\ stop_event' = TRUE
    /\ UNCHANGED << atask, starter, current_session, online, pending_events,
                    produced, server_log >>
    /\ StopUnchanged

\* start() after stop_event.wait(): cancel every task, then gather them.
StartCancels ==
    /\ starter = "waiting"
    /\ stop_event
    /\ atask' = [t \in AgentTasks |->
                    IF Finished(t) THEN atask[t]
                    ELSE [atask[t] EXCEPT !.cancel = TRUE]]
    /\ starter' = "gathering"
    /\ UNCHANGED << stop_event, current_session, online, pending_events,
                    produced, server_log >>
    /\ StopUnchanged

\* start() after gather: close the clients, stop the tray, return.
StartReturns ==
    /\ starter = "gathering"
    /\ \A t \in AgentTasks : Finished(t)
    /\ starter' = "returned"
    /\ UNCHANGED << stop_event, atask, current_session, online,
                    pending_events, produced, server_log >>
    /\ StopUnchanged

\* The usage events _on_app_change(old, new) reports.
ChangeEvents(old, new) ==
    (IF old # None THEN << "stop" >> ELSE << >>)
    \o (IF new # None THEN << "start" >> ELSE << >>)

\* ProcessMonitor.poll with the foreground process fg, up to the first
\* await of _on_app_change.
Poll(fg) ==
    LET same == /\ fg # None
                /\ current_session # None
                /\ current_session[1].executable = ProcName[fg[1]]
                /\ current_session[1].pid = fg[1]
        new == IF fg = None THEN None ELSE Some(SessionOf(fg[1]))
        todo == ChangeEvents(current_session, new)
    IN  IF same \/ (fg = None /\ current_session = None)
        THEN UNCHANGED << atask, current_session >>
        ELSE /\ produced + Len(todo) < MaxEvents
             /\ current_session' = new
             /\ atask' = [atask EXCEPT !["monitor"].pc = "report",
                                       !["monitor"].todo = todo]

\* ProcessMonitor.run: the interval is over and the loop polls again.
MonitorPoll(fg) ==
    /\ At("monitor", "wait")
    /\ ~stop_event
    /\ Poll(fg)
    /\ UNCHANGED << stop_event, starter, online, pending_events, produced,
                    server_log >>
    /\ StopUnchanged

\* _on_app_change: the REST call of the next usage event ends.
MonitorReport ==
    /\ \/ At("monitor", "report")
       \/ At("monitor", "final")
    /\ SendOrQueue("usage_event", TRUE, FALSE)
    /\ atask' = [atask EXCEPT
                    !["monitor"].todo = Tail(@),
                    !["monitor"].pc =
                        IF Tail(atask["monitor"].todo) # << >> THEN @
                        ELSE IF @ = "final" THEN "done" ELSE "wait"]
    /\ UNCHANGED << stop_event, starter, current_session >>
    /\ StopUnchanged

\* ProcessMonitor.run after its loop: report the session that is closing.
CloseSession ==
    IF current_session # None
    THEN /\ current_session' = None
         /\ atask' = [atask EXCEPT !["monitor"].pc = "final",
                                   !["monitor"].todo = << "stop" >>,
                                   !["monitor"].cancel = FALSE]
    ELSE /\ atask' = [atask EXCEPT !["monitor"].pc = "done",
                                   !["monitor"].cancel = FALSE]
         /\ UNCHANGED current_session

\* ProcessMonitor.run: wait_for(stop_event.wait()) returns, the loop ends.
MonitorStops ==
    /\ At("monitor", "wait")
    /\ stop_event
    /\ CloseSession
    /\ UNCHANGED << stop_event, starter, online, pending_events, produced,
                    server_log >>
    /\ StopUnchanged

TaskUnchanged ==
    /\ UNCHANGED << stop_event, starter, current_session, online,
                    pending_events, produced, server_log >>
    /\ StopUnchanged

\* An interval loop: the interval is over, the body begins.
LoopWork(t) ==
    /\ At(t, "wait")
    /\ ~stop_event
    /\ Goto(t, "work")
    /\ TaskUnchanged

\* An interval loop: the body is done, wait_for(stop_event.wait()) begins.
LoopWaits(t) ==
    /\ At(t, "work")
    /\ Goto(t, "wait")
    /\ TaskUnchanged

\* An interval loop: wait_for(stop_event.wait()) returns, break.
LoopStops(t) ==
    /\ At(t, "wait")
    /\ stop_event
    /\ Goto(t, "done")
    /\ TaskUnchanged

\* The reconnection parameters of WsClient, in seconds.
WsInitialBackoff == 1
WsMaxBackoff == 60
WsBackoffFactor == 2

\* min(a, b)
Min(a, b) == IF a <= b THEN a ELSE b

\* backoff = min(backoff * _WS_BACKOFF_FACTOR, _WS_MAX_BACKOFF)
NextBackoff(backoff) == Min(backoff * WsBackoffFactor, WsMaxBackoff)

\* The run() loop of the WebSocket task goes to pc with the local variable
\* backoff set.
WsGoto(pc, backoff) ==
    atask' = [atask EXCEPT !["websocket"].pc = pc,
                           !["websocket"].backoff = backoff]

\* WsClient.run: connect() returns after auth_ok, the back-off is reset and
\* the reader, the writer and the heartbeat producer are started, or
\* connect() raises.
WsConnect ==
    /\ At("websocket", "connect")
    /\ \/ WsGoto("running", WsInitialBackoff)
       \/ Goto("websocket", "cleanup")
    /\ TaskUnchanged

\* WsClient.run: asyncio.wait returns because one of the three sub-tasks is
\* done; the others are cancelled and awaited one by one.
WsSubtaskDone ==
    /\ At("websocket", "running")
    /\ Goto("websocket", "cancel_subtasks")
    /\ TaskUnchanged

\* WsClient.run: the cancelled sub-tasks have ended; the finished one
\* raised (the connection was lost) or ended without an exception.
WsSubtasksCancelled ==
    /\ At("websocket", "cancel_subtasks")
    /\ \/ Goto("websocket", "cleanup")
       \/ Goto("websocket", "connect")
    /\ TaskUnchanged

\* WsClient.run, except Exception: _cleanup_ws is done, sleep(backoff).
WsCleanedUp ==
    /\ At("websocket", "cleanup")
    /\ Goto("websocket", "backoff")
    /\ TaskUnchanged

\* WsClient.run: sleep(backoff) is over, the delay grows and the loop
\* connects again.
WsBackoffOver ==
    /\ At("websocket", "backoff")
    /\ WsGoto("connect", NextBackoff(atask["websocket"].backoff))
    /\ TaskUnchanged

\* WsClient.run when CancelledError arrives at the await of pc: it is
\* caught by "except asyncio.CancelledError: break" inside the try block,
\* swallowed by the "except asyncio.CancelledError: pass" around the await
\* of a cancelled sub-task, and leaves run() from the except block.
WsCancelled(pc) ==
    IF pc \in {"connect", "running"} THEN "done"
    ELSE IF pc = "cancel_subtasks" THEN pc
    ELSE "cancelled"

\* The cancelled task t runs again: CancelledError is raised at its await.
\* At wait_for(stop_event.wait()) with the event set, wait_for raises it
\* or returns the result of the wait, depending on the Python version.
DeliverCancel(t) ==
    /\ atask[t].cancel
    /\ ~Finished(t)
    /\ IF t = "websocket"
       THEN /\ atask' = [atask EXCEPT ![t].cancel = FALSE,
                                      ![t].pc = WsCancelled(atask[t].pc)]
            /\ UNCHANGED current_session
       ELSE IF atask[t].pc # "wait"
       THEN /\ atask' = [atask EXCEPT ![t].cancel = FALSE,
                                      ![t].pc = "cancelled", ![t].todo = << >>]
            /\ UNCHANGED current_session
       ELSE \/ /\ atask' = [atask EXCEPT ![t].cancel = FALSE,
                                         ![t].pc = "cancelled"]
               /\ UNCHANGED current_session
            \/ /\ t = "monitor"
               /\ CloseSession
            \/ /\ t # "monitor"
               /\ atask' = [atask EXCEPT ![t].cancel = FALSE, ![t].pc = "done"]
               /\ UNCHANGED current_session
    /\ UNCHANGED << stop_event, starter, online, pending_events, produced,
                    server_log >>
    /\ StopUnchanged


----------------------------------------------------------------------------
\* The quest scheduler (services/quest_scheduler.py) and the TAN scheduler
\* (services/tan_scheduler.py), each run by a loop of app/main.py in a
\* session of its own, and the handlers that change what they read.
\*
\* Days are counted from a Monday (day 0); the model's clock starts on
\* SchedFirstDay, a Thursday, and stops at MaxSchedDay.

\* The first day of the schedulers' clock: a Thursday.
SchedFirstDay == 3
\* The last day of the schedulers' clock.
MaxSchedDay == 4
\* Runs of schedule_daily_quests in one run of SpecQuests.
MaxQuestRuns == 2
\* Template, child and day type changes in one run of SpecQuests.
MaxQuestChanges == 3
\* Runs of run_tan_schedules started in one run of SpecTanSchedules.
MaxTanRuns == 3

QuestTemplateIds == {"q1", "q2"}
QuestChildren == {"c1", "c2"}
QuestRecurrences == {"daily", "weekly", "school_days", "once"}
SchedDays == SchedFirstDay..MaxSchedDay

\* date.weekday(): Monday is 0.
Weekday(d) == d % 7

\* _get_day_info
GetDayInfo(today) ==
    LET is_weekday == Weekday(today) < 5
        is_holiday == today \in holidays
    IN  [is_weekday |-> is_weekday,
         is_holiday |-> is_holiday,
         is_school_day |-> is_weekday /\ ~is_holiday]

\* _should_schedule
ShouldSchedule(template, day_info, today) ==
    CASE template.recurrence = "daily" -> TRUE
      [] template.recurrence = "weekly" ->
            Weekday(today) = Weekday(template.created_at)
      [] template.recurrence = "school_days" -> day_info.is_school_day
      [] OTHER -> FALSE

\* The query of the loop over templates: the active recurring templates.
RecurringTemplates ==
    { t \in QuestTemplateIds :
        /\ quest_templates[t] # None
        /\ quest_templates[t][1].active
        /\ quest_templates[t][1].recurrence \in {"daily", "weekly", "school_days"} }

\* The pairs the two loops of schedule_daily_quests reach on a day.
ScheduledPairs(today) ==
    { p \in RecurringTemplates \X quest_children :
        ShouldSchedule(quest_templates[p[1]][1], GetDayInfo(today), today) }

\* A scheduler that never finds an instance.
NoInstanceSince(instances, template_id, child_id, today_start) == FALSE

\* The count query: is there an instance of the pair created since 00:00.
InstanceSince(instances, template_id, child_id, today_start) ==
    \E i \in instances :
        /\ i.template_id = template_id
        /\ i.child_id = child_id
        /\ i.created_at >= today_start

\* create_instances_for_child
NewInstance(template_id, child_id, by) ==
    [template_id |-> template_id, child_id |-> child_id,
     status |-> "available", created_at |-> utc_day, by |-> by,
     generated_tan_id |-> None, reviewed_at |-> None]

SchedOthers ==
    UNCHANGED << coreVars, cacheVars, ruleVars, regVars, parentVars, agentVars,
                 enforceVars, offlineVars, lifeVars, rewardVars, flowVars >>

QuestChanges == quest_changes < MaxQuestChanges

\* schedule_daily_quests and the commit of _quest_scheduler_loop.  The run
\* is the only writer of its session; quest_runs keeps what it saw and what
\* it returned.
ScheduleDailyQuests ==
    /\ Len(quest_runs) < MaxQuestRuns
    /\ LET today == utc_day
           pairs == ScheduledPairs(today)
           existing == { p \in pairs :
                           InstanceSince(quest_instances, p[1], p[2], today) }
           created == pairs \ existing
           run == Len(quest_runs) + 1
       IN  /\ quest_instances' = quest_instances \cup
                 { NewInstance(p[1], p[2], << "scheduler", run >>) : p \in created }
           /\ quest_runs' = Append(quest_runs,
                 [day |-> today, pairs |-> pairs, existing |-> existing,
                  total_created |-> Cardinality(created)])
    /\ UNCHANGED << utc_day, holidays, quest_templates, quest_children,
                    quest_changes, tanSchedVars >>
    /\ SchedOthers

\* POST /families/{family_id}/quests
CreateQuestTemplate(t, recurrence) ==
    /\ QuestChanges
    /\ quest_templates[t] = None
    /\ quest_templates' = [quest_templates EXCEPT ![t] =
          Some([active |-> TRUE, recurrence |-> recurrence, created_at |-> utc_day])]
    /\ quest_changes' = quest_changes + 1
    /\ UNCHANGED << utc_day, holidays, quest_children, quest_instances,
                    quest_runs, tanSchedVars >>
    /\ SchedOthers

\* PUT and DELETE /families/{family_id}/quests/{quest_id}: the update sets
\* what the body names, the delete clears active.
UpdateQuestTemplate(t, recurrence, active) ==
    /\ QuestChanges
    /\ quest_templates[t] # None
    /\ quest_templates' = [quest_templates EXCEPT ![t] =
          Some([quest_templates[t][1] EXCEPT !.recurrence = recurrence,
                                             !.active = active])]
    /\ quest_templates' # quest_templates
    /\ quest_changes' = quest_changes + 1
    /\ UNCHANGED << utc_day, holidays, quest_children, quest_instances,
                    quest_runs, tanSchedVars >>
    /\ SchedOthers

\* A child joins the family.
AddQuestChild(c) ==
    /\ QuestChanges
    /\ c \notin quest_children
    /\ quest_children' = quest_children \cup {c}
    /\ quest_changes' = quest_changes + 1
    /\ UNCHANGED << utc_day, holidays, quest_templates, quest_instances,
                    quest_runs, tanSchedVars >>
    /\ SchedOthers

\* POST /children/{child_id}/quests/assign
AssignQuest(t, c) ==
    /\ QuestChanges
    /\ c \in quest_children
    /\ quest_templates[t] # None
    /\ quest_templates[t][1].active
    /\ quest_instances' = quest_instances \cup
          { NewInstance(t, c, << "parent", quest_changes >>) }
    /\ quest_changes' = quest_changes + 1
    /\ UNCHANGED << utc_day, holidays, quest_templates, quest_children,
                    quest_runs, tanSchedVars >>
    /\ SchedOthers

\* POST /families/{family_id}/day-types with day_type holiday or vacation.
CreateDayTypeOverride(d) ==
    /\ QuestChanges
    /\ d \notin holidays
    /\ holidays' = holidays \cup {d}
    /\ quest_changes' = quest_changes + 1
    /\ UNCHANGED << utc_day, quest_templates, quest_children, quest_instances,
                    quest_runs, tanSchedVars >>
    /\ SchedOthers

\* Midnight UTC.
SchedDayPasses ==
    /\ utc_day < MaxSchedDay
    /\ utc_day' = utc_day + 1
    /\ UNCHANGED << holidays, quest_templates, quest_children, quest_instances,
                    quest_runs, quest_changes, tanSchedVars >>
    /\ SchedOthers

\* The active rows of tan_schedules.
TanScheduleRows ==
    [s1 |-> [recurrence |-> "daily"], s2 |-> [recurrence |-> "school_days"]]
TanScheduleIds == DOMAIN TanScheduleRows

\* The processes that run _tan_schedule_loop: the server, and the server
\* started anew while the old process still runs.
Runners == {"r1", "r2"}

IdleRunner ==
    [pc |-> "idle", run |-> 0, today |-> 0, rows |-> << >>, tans |-> {},
     added |-> {}, flushed |-> {}]

\* _should_generate
ShouldGenerate(schedule, day_info) ==
    CASE schedule.recurrence = "daily" -> TRUE
      [] schedule.recurrence = "weekdays" -> day_info.is_weekday
      [] schedule.recurrence = "weekends" -> ~day_info.is_weekday
      [] schedule.recurrence = "school_days" -> day_info.is_school_day
      [] OTHER -> FALSE

\* A table tan_schedule_logs without its unique constraint.
NoLogConflict(log, rows) == FALSE

\* uq_tan_schedule_log_date: does a row of the pair exist.
LogConflict(log, rows) ==
    \E l \in rows :
        /\ l.schedule_id = log.schedule_id
        /\ l.generated_date = log.generated_date

\* The rows of tan_schedule_logs other sessions inserted and not committed.
LogsInFlight(r) == UNION { runner[o].flushed : o \in Runners \ {r} }

TanRunUnchanged ==
    /\ UNCHANGED << utc_day, holidays, questVars >>
    /\ SchedOthers

\* run_tan_schedules up to the loop: today is read once, the schedules come
\* in the order the database returns them.
RunTanSchedules(r, rows) ==
    /\ tan_runs < MaxTanRuns
    /\ runner[r].pc = "idle"
    /\ tan_runs' = tan_runs + 1
    /\ runner' = [runner EXCEPT ![r] =
          [IdleRunner EXCEPT !.pc = "loop", !.run = tan_runs + 1,
                             !.today = utc_day, !.rows = rows]]
    /\ UNCHANGED << tan_schedule_logs, scheduled_tans >>
    /\ TanRunUnchanged

\* The INSERT of a log row the session added: it waits for an uncommitted
\* row of the same pair, and fails on a committed one; the loop of main.py
\* catches the error and the session rolls back.
FlushLog(r) ==
    /\ runner[r].pc \in {"loop", "commit"}
    /\ \E log \in runner[r].added :
        /\ ~LogConflict(log, LogsInFlight(r))
        /\ IF LogConflict(log, tan_schedule_logs)
           THEN runner' = [runner EXCEPT ![r] = IdleRunner]
           ELSE runner' = [runner EXCEPT ![r].added = @ \ {log},
                                         ![r].flushed = @ \cup {log}]
    /\ UNCHANGED << tan_schedule_logs, scheduled_tans, tan_runs >>
    /\ TanRunUnchanged

\* One turn of the loop over the schedules, after the autoflush of its first
\* query: the idempotency check, the TAN and its log row.
GenerateScheduled(r) ==
    /\ runner[r].pc = "loop"
    /\ runner[r].added = {}
    /\ runner[r].rows # << >>
    /\ LET s == Head(runner[r].rows)
           today == runner[r].today
           tan == [id |-> << runner[r].run, s >>, source |-> "scheduled",
                   schedule_id |-> s, date |-> today]
           log == [schedule_id |-> s, generated_date |-> today,
                   generated_tan_id |-> tan.id]
           existing == LogConflict(log, tan_schedule_logs \cup runner[r].flushed)
       IN  IF ShouldGenerate(TanScheduleRows[s], GetDayInfo(today)) /\ ~existing
           THEN runner' = [runner EXCEPT ![r].rows = Tail(@),
                                         ![r].tans = @ \cup {tan},
                                         ![r].added = @ \cup {log}]
           ELSE runner' = [runner EXCEPT ![r].rows = Tail(@)]
    /\ UNCHANGED << tan_schedule_logs, scheduled_tans, tan_runs >>
    /\ TanRunUnchanged

\* run_tan_schedules returns.
RunReturns(r) ==
    /\ runner[r].pc = "loop"
    /\ runner[r].rows = << >>
    /\ runner' = [runner EXCEPT ![r].pc = "commit"]
    /\ UNCHANGED << tan_schedule_logs, scheduled_tans, tan_runs >>
    /\ TanRunUnchanged

\* await db.commit(), after its flush.
RunCommits(r) ==
    /\ runner[r].pc = "commit"
    /\ runner[r].added = {}
    /\ tan_schedule_logs' = tan_schedule_logs \cup runner[r].flushed
    /\ scheduled_tans' = scheduled_tans \cup runner[r].tans
    /\ runner' = [runner EXCEPT ![r] = IdleRunner]
    /\ UNCHANGED tan_runs
    /\ TanRunUnchanged

\* The process is stopped or the loop cancelled: the session rolls back.
RunRollsBack(r) ==
    /\ runner[r].pc # "idle"
    /\ runner' = [runner EXCEPT ![r] = IdleRunner]
    /\ UNCHANGED << tan_schedule_logs, scheduled_tans, tan_runs >>
    /\ TanRunUnchanged

\* The orders in which the query of the active schedules returns them.
RowOrders ==
    { q \in [1..Cardinality(TanScheduleIds) -> TanScheduleIds] :
        \A i, j \in DOMAIN q : i # j => q[i] # q[j] }

----------------------------------------------------------------------------
\* The usage rewards (services/usage_reward_service.py), run by
\* _usage_reward_loop of app/main.py in a session of its own.

\* Runs of evaluate_daily_rewards started in one run of SpecRewards.
MaxRewardRuns == 3

\* The active rows of usage_reward_rules.
RewardRules ==
    [u1 |-> [trigger_type |-> "daily_under", threshold_minutes |-> 60,
             streak_days |-> None],
     u2 |-> [trigger_type |-> "streak_under", threshold_minutes |-> 60,
             streak_days |-> Some(2)]]
RewardRuleIds == DOMAIN RewardRules

\* The sum of duration_seconds of the child's usage events that started on
\* a date: under the threshold by a second up to the first day of the
\* clock, at the threshold after it.
UsageSeconds(target_date) == IF target_date <= SchedFirstDay THEN 3599 ELSE 3600

\* _get_usage_minutes
GetUsageMinutes(target_date) == UsageSeconds(target_date) \div 60

\* _check_streak, on the log rows the session sees
CheckStreak(rule, today_usage, target_date, logs) ==
    LET streak_days == IF rule.streak_days = None THEN 3 ELSE rule.streak_days[1]
        needed == streak_days - 1
        found == { l \in logs :
                     /\ l.evaluated_date >= target_date - needed
                     /\ l.evaluated_date < target_date }
    IN  IF today_usage >= rule.threshold_minutes THEN FALSE
        ELSE IF needed = 0 THEN TRUE
        ELSE IF Cardinality(found) < needed THEN FALSE
        ELSE \A l \in found : l.usage_minutes < rule.threshold_minutes

\* _check_trigger
CheckTrigger(rule, usage_minutes, target_date, logs) ==
    CASE rule.trigger_type = "daily_under" ->
            usage_minutes < rule.threshold_minutes
      [] rule.trigger_type = "group_free" -> usage_minutes = 0
      [] rule.trigger_type = "streak_under" ->
            CheckStreak(rule, usage_minutes, target_date, logs)
      [] OTHER -> FALSE

IdleEvaluator ==
    [pc |-> "idle", run |-> 0, yesterday |-> 0, rules |-> << >>, tans |-> {},
     added |-> {}, flushed |-> {}]

\* A table usage_reward_logs without its unique constraint.
NoRewardLogConflict(log, rows) == FALSE

\* uq_reward_log_rule_date: does a row of the pair exist.
RewardLogConflict(log, rows) ==
    \E l \in rows :
        /\ l.rule_id = log.rule_id
        /\ l.evaluated_date = log.evaluated_date

\* The rows of usage_reward_logs other sessions inserted and not committed.
RewardLogsInFlight(r) == UNION { evaluator[o].flushed : o \in Runners \ {r} }

RewardOthers ==
    UNCHANGED << coreVars, cacheVars, ruleVars, regVars, parentVars, agentVars,
                 enforceVars, offlineVars, lifeVars, utc_day, holidays,
                 questVars, tanSchedVars, flowVars >>

\* The orders in which the query of the active rules returns them.
RuleOrders ==
    { q \in [1..Cardinality(RewardRuleIds) -> RewardRuleIds] :
        \A i, j \in DOMAIN q : i # j => q[i] # q[j] }

\* evaluate_daily_rewards up to the loop: yesterday is read once.
EvaluateDailyRewards(r, rules) ==
    /\ reward_runs < MaxRewardRuns
    /\ evaluator[r].pc = "idle"
    /\ reward_runs' = reward_runs + 1
    /\ evaluator' = [evaluator EXCEPT ![r] =
          [IdleEvaluator EXCEPT !.pc = "loop", !.run = reward_runs + 1,
                                !.yesterday = utc_day - 1, !.rules = rules]]
    /\ UNCHANGED << usage_reward_logs, reward_tans >>
    /\ RewardOthers

\* The INSERT of a log row the session added: it waits for an uncommitted
\* row of the same pair, and fails on a committed one; the loop of main.py
\* catches the error and the session rolls back.
FlushRewardLog(r) ==
    /\ evaluator[r].pc \in {"loop", "commit"}
    /\ \E log \in evaluator[r].added :
        /\ ~RewardLogConflict(log, RewardLogsInFlight(r))
        /\ IF RewardLogConflict(log, usage_reward_logs)
           THEN evaluator' = [evaluator EXCEPT ![r] = IdleEvaluator]
           ELSE evaluator' = [evaluator EXCEPT ![r].added = @ \ {log},
                                               ![r].flushed = @ \cup {log}]
    /\ UNCHANGED << usage_reward_logs, reward_tans, reward_runs >>
    /\ RewardOthers

\* One turn of the loop over the rules, after the autoflush of its first
\* query: the idempotency check, the trigger, the TAN and the log row.
EvaluateRule(r) ==
    /\ evaluator[r].pc = "loop"
    /\ evaluator[r].added = {}
    /\ evaluator[r].rules # << >>
    /\ LET id == Head(evaluator[r].rules)
           rule == RewardRules[id]
           yesterday == evaluator[r].yesterday
           seen == usage_reward_logs \cup evaluator[r].flushed
           usage_minutes == GetUsageMinutes(yesterday)
           rewarded == CheckTrigger(rule, usage_minutes, yesterday,
                                    { l \in seen : l.rule_id = id })
           tan == [id |-> << evaluator[r].run, id >>, source |-> "usage_reward",
                   rule_id |-> id, date |-> yesterday]
           log == [rule_id |-> id, evaluated_date |-> yesterday,
                   usage_minutes |-> usage_minutes,
                   threshold_minutes |-> rule.threshold_minutes,
                   rewarded |-> rewarded,
                   generated_tan_id |-> IF rewarded THEN Some(tan.id) ELSE None]
       IN  IF RewardLogConflict(log, seen)
           THEN evaluator' = [evaluator EXCEPT ![r].rules = Tail(@)]
           ELSE evaluator' = [evaluator EXCEPT
                   ![r].rules = Tail(@),
                   ![r].tans = IF rewarded THEN @ \cup {tan} ELSE @,
                   ![r].added = @ \cup {log}]
    /\ UNCHANGED << usage_reward_logs, reward_tans, reward_runs >>
    /\ RewardOthers

\* evaluate_daily_rewards returns.
EvaluateReturns(r) ==
    /\ evaluator[r].pc = "loop"
    /\ evaluator[r].rules = << >>
    /\ evaluator' = [evaluator EXCEPT ![r].pc = "commit"]
    /\ UNCHANGED << usage_reward_logs, reward_tans, reward_runs >>
    /\ RewardOthers

\* await db.commit(), after its flush.
EvaluateCommits(r) ==
    /\ evaluator[r].pc = "commit"
    /\ evaluator[r].added = {}
    /\ usage_reward_logs' = usage_reward_logs \cup evaluator[r].flushed
    /\ reward_tans' = reward_tans \cup evaluator[r].tans
    /\ evaluator' = [evaluator EXCEPT ![r] = IdleEvaluator]
    /\ UNCHANGED reward_runs
    /\ RewardOthers

\* The process is stopped or the loop cancelled: the session rolls back.
EvaluateRollsBack(r) ==
    /\ evaluator[r].pc # "idle"
    /\ evaluator' = [evaluator EXCEPT ![r] = IdleEvaluator]
    /\ UNCHANGED << usage_reward_logs, reward_tans, reward_runs >>
    /\ RewardOthers

----------------------------------------------------------------------------
\* The life of a quest instance (services/quest_service.py and the handlers
\* of routers/quests.py).  Every handler runs in a session of its own: it
\* reads the committed row, checks the status it read, and its UPDATE waits
\* for the row lock of an uncommitted UPDATE of the same row; the UPDATE
\* writes the columns the handler changed.

\* Handler calls on quest instances in one run of SpecQuestFlow.
MaxQuestOps == 3

QuestHandlers == {"h1", "h2"}
QuestOps == {"claim", "proof", "proof_ai", "review_approve", "review_reject",
             "auto_detect"}

\* The primary key of a row of quest_instances.
InstKey(i) == << i.template_id, i.child_id, i.created_at, i.by >>
InstRow(rows, key) == CHOOSE i \in rows : InstKey(i) = key

IdleQuestHandler ==
    [pc |-> "idle", op |-> "", key |-> << >>, seen |-> None, steps |-> << >>,
     tan |-> None, reviewed_at |-> None]

\* The statuses the handler's UPDATE statements write, in order, from the
\* status it read; << >> if it raises 400 or finds nothing to do.
\* claim_quest, submit_proof (with and without the AI's approval),
\* review_quest, check_auto_detect_quests.
StatusWrites(op, status) ==
    CASE op = "claim" /\ status = "available" -> << "claimed" >>
      [] op = "proof" /\ status = "claimed" -> << "pending_review" >>
      [] op = "proof_ai" /\ status = "claimed" -> << "pending_review", "approved" >>
      [] op = "review_approve" /\ status = "pending_review" -> << "approved" >>
      [] op = "review_reject" /\ status = "pending_review" -> << "rejected" >>
      [] op = "auto_detect" /\ status \in {"available", "claimed"} -> << "approved" >>
      [] OTHER -> << >>

\* check_streak_bonus, called after an approval.  With a streak of 0 it
\* returns; with a streak of 1 or more it builds its query of
\* QuestTemplate.streak_threshold, a column the class QuestTemplate
\* (models/quest.py) does not have: AttributeError.
StreakBonusRaises(streak) == streak >= 1

\* get_active_streak after an approval of today: 1 or more if the database
\* session's date of reviewed_at is today's or yesterday's UTC date, else 0.
ActiveStreaks == {0, 1}

FlowOthers ==
    UNCHANGED << coreVars, cacheVars, ruleVars, regVars, parentVars, agentVars,
                 enforceVars, offlineVars, lifeVars, utc_day, holidays,
                 quest_templates, quest_children, quest_runs, quest_changes,
                 tanSchedVars, rewardVars >>

\* The handler's SELECT of the instance.
QuestLoad(h, op, key) ==
    /\ quest_ops < MaxQuestOps
    /\ quest_handlers[h].pc = "idle"
    /\ \E i \in quest_instances : InstKey(i) = key
    /\ quest_ops' = quest_ops + 1
    /\ quest_handlers' = [quest_handlers EXCEPT ![h] =
          [IdleQuestHandler EXCEPT !.pc = "loaded", !.op = op, !.key = key,
                                   !.seen = Some(InstRow(quest_instances, key))]]
    /\ UNCHANGED quest_instances
    /\ FlowOthers

\* The service function: the status check on the row that was read, the
\* new status, the reward TAN, the flush, the streak bonus.  A handler that
\* raises rolls back.
QuestAct(h, streak) ==
    LET q == quest_handlers[h]
        steps == IF q.op = "auto_detect" /\ q.seen[1].created_at < utc_day
                 THEN << >>
                 ELSE StatusWrites(q.op, q.seen[1].status)
        approves == steps # << >> /\ steps[Len(steps)] = "approved"
        reviews == q.op \in {"review_approve", "review_reject", "proof_ai",
                             "auto_detect"}
    IN  /\ q.pc = "loaded"
        /\ IF steps = << >>
           THEN quest_handlers' = [quest_handlers EXCEPT ![h] = IdleQuestHandler]
           ELSE /\ \A o \in QuestHandlers \ {h} :
                      ~(quest_handlers[o].pc = "flushed" /\ quest_handlers[o].key = q.key)
                /\ IF approves /\ StreakBonusRaises(streak)
                   THEN quest_handlers' =
                           [quest_handlers EXCEPT ![h] = IdleQuestHandler]
                   ELSE quest_handlers' = [quest_handlers EXCEPT
                           ![h].pc = "flushed",
                           ![h].steps = steps,
                           ![h].tan = IF approves THEN Some(<< q.op, quest_ops >>)
                                      ELSE None,
                           ![h].reviewed_at = IF reviews THEN Some(utc_day)
                                              ELSE None]
        /\ UNCHANGED << quest_instances, quest_ops >>
        /\ FlowOthers

\* get_db commits: the UPDATE sets the columns the handler wrote.
QuestCommit(h) ==
    LET q == quest_handlers[h]
        old == InstRow(quest_instances, q.key)
        new == [old EXCEPT
                  !.status = q.steps[Len(q.steps)],
                  !.generated_tan_id = IF q.tan # None THEN q.tan ELSE @,
                  !.reviewed_at = IF q.reviewed_at # None THEN q.reviewed_at ELSE @]
    IN  /\ q.pc = "flushed"
        /\ quest_instances' = (quest_instances \ {old}) \cup {new}
        /\ quest_handlers' = [quest_handlers EXCEPT ![h] = IdleQuestHandler]
        /\ UNCHANGED quest_ops
        /\ FlowOthers

----------------------------------------------------------------------------
InitGen ==
    /\ gen = [g \in GenSessions |-> IdleGen]
    /\ genBudget = MaxCreates

InitPush ==
    /\ conns = {}
    /\ applied = [c \in Children |-> {}]
    /\ received = [d \in Devices |-> {}]
    /\ hand = [h \in Handlers |-> IdleHand]
    /\ mutBudget = MaxMutations

InitCache ==
    /\ policy = {}
    /\ cache = [d \in CacheDevices |-> None]
    /\ pusher = [m \in CacheMuts |-> IdlePusher]
    /\ pushDone = {}
    /\ resolver = IdleResolver

InitRules ==
    /\ rdb = None
    /\ resolved = [d \in ResolveIds |-> None]

InitRegistry ==
    /\ connections = [d \in RegDevices |-> None]
    /\ child_devices = << >>
    /\ sock = [s \in RegSockets |-> "new"]
    /\ inbox = [s \in RegSockets |-> << >>]
    /\ task = [t \in RegTasks |-> IdleTask]

InitParents ==
    /\ parent_connections = << >>
    /\ psock = [p \in ParentSockets |-> "new"]
    /\ pinbox = [p \in ParentSockets |-> << >>]
    /\ notifier = [t \in NotifyTasks |-> IdleNotifier]

InitAgent ==
    /\ online = TRUE          \* set by start() before the tasks run
    /\ ws_in = << >>
    /\ agent_rules = None      \* no snapshot applied yet
    /\ blocked_groups = {}
    /\ cached_rules = None

InitBlocker ==
    /\ totp_override_until = None
    /\ agent_now = 0
    /\ alive = [p \in Pids |-> TRUE]
    /\ killer = IdleKiller
    /\ last_enforce = None

InitMonitor == current_session = None

InitOffline ==
    /\ pending_events = << >>
    /\ server_up = TRUE
    /\ produced = 0
    /\ server_log = << >>
    /\ sync = IdleSync

InitTasks ==
    /\ stop_event = FALSE
    /\ starter = "waiting"
    /\ atask = [t \in AgentTasks |->
                  [pc |-> IF t = "websocket" THEN "connect" ELSE "wait",
                   cancel |-> FALSE, todo |-> << >>,
                   backoff |-> IF t = "websocket" THEN WsInitialBackoff ELSE 0]]

InitSchedulers ==
    /\ utc_day = SchedFirstDay
    /\ holidays = {}
    /\ quest_templates = [t \in QuestTemplateIds |-> None]
    /\ quest_children = {}
    /\ quest_instances = {}
    /\ quest_runs = << >>
    /\ quest_changes = 0
    /\ tan_schedule_logs = {}
    /\ scheduled_tans = {}
    /\ runner = [r \in Runners |-> IdleRunner]
    /\ tan_runs = 0
    /\ usage_reward_logs = {}
    /\ reward_tans = {}
    /\ evaluator = [r \in Runners |-> IdleEvaluator]
    /\ reward_runs = 0
    /\ quest_handlers = [h \in QuestHandlers |-> IdleQuestHandler]
    /\ quest_ops = 0

InitLater ==
    /\ InitBlocker
    /\ InitMonitor
    /\ InitOffline
    /\ InitTasks
    /\ InitSchedulers

InitExt ==
    /\ InitCache
    /\ InitRules
    /\ InitRegistry
    /\ InitParents
    /\ InitAgent
    /\ InitLater

InitTans ==
    /\ now = BLACKOUT_END - 1
    /\ horizon = TodayEnd(0)
    /\ tans = << >>
    /\ req = [r \in Reqs |-> IdleReq]
    /\ pend = [r \in Reqs |-> None]
    /\ okCount = [i \in 1..MaxTans |-> 0]
    /\ budget = MaxRequests

InitServer ==
    /\ InitTans
    /\ InitGen
    /\ InitPush
    /\ InitCache
    /\ InitRules
    /\ InitRegistry
    /\ InitParents

Init ==
    /\ now = BLACKOUT_END - 1
    /\ horizon = TodayEnd(0)
    /\ tans = << >>
    /\ req = [r \in Reqs |-> IdleReq]
    /\ pend = [r \in Reqs |-> None]
    /\ okCount = [i \in 1..MaxTans |-> 0]
    /\ budget = MaxRequests
    /\ InitGen
    /\ InitPush
    /\ InitExt

Next ==
    \/ Tick
    \/ GenerateTan
    \/ \E r \in Reqs : RedeemLookup(r)
    \/ \E r \in Reqs : ValidateCount(r)
    \/ \E r \in Reqs : ValidateBonus(r)
    \/ \E r \in Reqs : ValidateGroups(r)
    \/ \E r \in Reqs : RedeemTan(r)
    \/ \E r \in Reqs : Commit(r)
    \/ \E r \in Reqs : InvalidateLookup(r)
    \/ \E r \in Reqs : InvalidateFlush(r)
    \/ \E r \in Reqs : Respond(r)

Spec == Init /\ [][Next]_vars

NextGen ==
    \/ \E g \in GenSessions : StartCreate(g)
    \/ \E g \in GenSessions : DrawCode(g)
    \/ \E g \in GenSessions : InsertTan(g)
    \/ \E g \in GenSessions : DeadlockAbort(g)
    \/ \E g \in GenSessions : NextInBatch(g)
    \/ \E g \in GenSessions : CommitCreate(g)
    \/ \E g \in GenSessions : FinishCreate(g)

SpecGen == Init /\ [][NextGen]_vars

NextPush ==
    \/ \E d \in Devices : Connect(d)
    \/ \E d \in Devices : Disconnect(d)
    \/ \E h \in Handlers : StartMutation(h)
    \/ \E h \in Handlers : PushList(h)
    \/ \E h \in Handlers : PushSend(h)
    \/ \E h \in Handlers : CommitMutation(h)
    \/ \E h \in Handlers : RollbackMutation(h)
    \/ \E h \in Handlers : RespondMutation(h)

SpecPush == Init /\ [][NextPush]_vars

----------------------------------------------------------------------------
\* validate_tan_redemption on drawn inputs: the table holds MaxTans TANs
\* generated at the first instant of day 0, of which the first k were
\* redeemed one after the other at 06:00:00 of day 0, within both daily
\* limits and with no denied group; the clock starts at any later instant
\* of the days 0..MaxDay.

ValRow(i, inp, redeemed) ==
    [child |-> inp.child, code |-> i, value |-> inp.value, scope |-> inp.scope,
     expires |-> IF inp.expires = None THEN TodayEnd(0) ELSE inp.expires[1],
     source |-> "parent_manual",
     status |-> IF redeemed THEN "redeemed" ELSE "active",
     redeemed_at |-> IF redeemed THEN Some(BLACKOUT_END) ELSE None]

ValPicks ==
    { p \in [1..MaxTans -> UNION { GenInputs[k] : k \in 1..Len(GenInputs) }] :
        \A i \in 1..MaxTans : p[i] \in GenInputs[((i - 1) % Len(GenInputs)) + 1] }

ValTable(p, k) == [i \in 1..MaxTans |-> ValRow(i, p[i], i <= k)]

ValTables ==
    { tbl \in { ValTable(p, k) : p \in ValPicks, k \in 0..MaxTans } :
        \A c \in Children :
            /\ CountRedeemedToday(tbl, c, BLACKOUT_END) <= DEFAULT_MAX_TANS_PER_DAY
            /\ BonusToday(tbl, c, BLACKOUT_END) <= DEFAULT_MAX_BONUS_MINUTES_PER_DAY
            /\ \A i \in RedeemedToday(tbl, c, BLACKOUT_END) : ~GroupFails(tbl[i].scope) }

InitValidate ==
    /\ now \in { t \in Instants : t >= BLACKOUT_END }
    /\ horizon = TodayEnd(MaxDay * DaySeconds)
    /\ tans \in ValTables
    /\ req = [r \in Reqs |-> IdleReq]
    /\ pend = [r \in Reqs |-> None]
    /\ okCount = [i \in 1..MaxTans |-> IF tans[i].status = "redeemed" THEN 1 ELSE 0]
    /\ budget = ValRequests
    /\ InitGen
    /\ InitPush
    /\ InitExt

NextValidate ==
    \/ Tick
    \/ \E r \in Reqs : RedeemLookup(r)
    \/ \E r \in Reqs : ValidateCount(r)
    \/ \E r \in Reqs : ValidateBonus(r)
    \/ \E r \in Reqs : ValidateGroups(r)
    \/ \E r \in Reqs : RedeemTan(r)
    \/ \E r \in Reqs : Commit(r)
    \/ \E r \in Reqs : InvalidateLookup(r)
    \/ \E r \in Reqs : InvalidateFlush(r)
    \/ \E r \in Reqs : Respond(r)

SpecValidate == InitValidate /\ [][NextValidate]_vars

----------------------------------------------------------------------------
\* The TANs of a month: generated, invalidated by the parent, and swept by
\* the cleanup task.

InitRetention ==
    /\ now = BLACKOUT_END - 1
    /\ horizon = TodayEnd(MaxSweepDay * DaySeconds)
    /\ tans = << >>
    /\ req = [r \in Reqs |-> IdleReq]
    /\ pend = [r \in Reqs |-> None]
    /\ okCount = [i \in 1..MaxTans |-> 0]
    /\ budget = MaxRequests
    /\ InitGen
    /\ InitPush
    /\ InitExt

NextRetention ==
    \/ GenerateTan
    \/ \E r \in Reqs : InvalidateLookup(r)
    \/ \E r \in Reqs : InvalidateFlush(r)
    \/ \E r \in Reqs : Commit(r)
    \/ \E r \in Reqs : Respond(r)
    \/ \E n \in SweepRuns : CleanupRuns(n)

SpecRetention == InitRetention /\ [][NextRetention]_vars

\* Time passes and the cleanup task runs every day; a request that was
\* accepted is served to its end.
SpecRetentionFair ==
    /\ SpecRetention
    /\ WF_vars(\E n \in SweepRuns : CleanupRuns(n))
    /\ WF_vars(\E r \in Reqs : InvalidateFlush(r) \/ Commit(r) \/ Respond(r))

----------------------------------------------------------------------------
\* Concurrent requests on drawn tables: the same tables, the clock at
\* 06:00:00 of day 0, RaceRequests requests handled in any interleaving.

InitRace ==
    /\ now = BLACKOUT_END
    /\ horizon = BLACKOUT_START - 1
    /\ tans \in ValTables
    /\ req = [r \in Reqs |-> IdleReq]
    /\ pend = [r \in Reqs |-> None]
    /\ okCount = [i \in 1..MaxTans |-> IF tans[i].status = "redeemed" THEN 1 ELSE 0]
    /\ budget = RaceRequests
    /\ InitGen
    /\ InitPush
    /\ InitExt

SpecRace == InitRace /\ [][NextValidate]_vars

----------------------------------------------------------------------------
NextCache ==
    \/ \E m \in CacheMuts : PushStart(m)
    \/ \E m \in CacheMuts : PushCompute(m)
    \/ \E m \in CacheMuts : PushSetex(m)
    \/ \E m \in CacheMuts : PushCommit(m)
    \/ \E m \in CacheMuts : PushRollback(m)
    \/ \E d \in CacheDevices : ResolveGet(d)
    \/ ResolveCompute
    \/ ResolveSetex
    \/ ResolveReturn
    \/ \E d \in CacheDevices : CacheExpire(d)

SpecCache == Init /\ [][NextCache]_vars

----------------------------------------------------------------------------
\* Rule resolution on drawn rows: a table of two TimeRule rows, a coupling,
\* usage events, the calendar of Today and the status of device 1.

InitResolve ==
    /\ now = BLACKOUT_END - 1
    /\ horizon = TodayEnd(0)
    /\ tans = << >>
    /\ req = [r \in Reqs |-> IdleReq]
    /\ pend = [r \in Reqs |-> None]
    /\ okCount = [i \in 1..MaxTans |-> 0]
    /\ budget = MaxRequests
    /\ InitGen
    /\ InitPush
    /\ InitCache
    /\ rdb \in { Some([rules |-> rs, coupling |-> c, usage |-> u, calendar |-> k,
                       status |-> st]) :
                    rs \in [RuleIds -> RuleRows], c \in Couplings, u \in UsageTables,
                    k \in Calendars, st \in {"active", "revoked"} }
    /\ resolved = [d \in ResolveIds |-> None]
    /\ InitRegistry
    /\ InitParents
    /\ InitAgent
    /\ InitLater

NextResolve == \E d \in ResolveIds : Resolve(d)

SpecResolve == InitResolve /\ [][NextResolve]_vars

----------------------------------------------------------------------------
NextRegistry ==
    \/ \E s \in RegSockets : ConnectDevice(s)
    \/ \E s \in RegSockets : SocketDies(s)
    \/ \E s \in RegSockets : DisconnectDevice(s)
    \/ \E t \in RegTasks, d \in RegDevices : SendBegin(t, d)
    \/ \E t \in RegTasks : SendFinish(t)
    \/ \E t \in ChildSendTasks, c \in RegChildren : ChildSendBegin(t, c)
    \/ \E t \in RegTasks : ChildSendStep(t)

SpecRegistry == Init /\ [][NextRegistry]_vars

NextParents ==
    \/ \E p \in ParentSockets : ConnectParent(p)
    \/ \E p \in ParentSockets : ParentDies(p)
    \/ \E p \in ParentSockets : DisconnectParent(p)
    \/ \E t \in NotifyTasks, f \in Families : NotifyBegin(t, f)
    \/ \E t \in NotifyTasks : NotifyStep(t)

SpecParents == Init /\ [][NextParents]_vars

NextAgent ==
    \/ \E m \in ServerMessages : ServerPush(m)
    \/ OnWsMessage
    \/ FetchAndCacheRules
    \/ \E g \in AgentGroups : RemoteBlock(g)
    \/ \E g \in AgentGroups : RemoteUnblock(g)

SpecAgent == Init /\ [][NextAgent]_vars

\* The agent with the rules snapshots as the only source of blocks.
NextSnapshots ==
    \/ \E m \in ServerMessages : ServerPush(m)
    \/ OnWsMessage
    \/ FetchAndCacheRules

SpecSnapshots == Init /\ [][NextSnapshots]_vars


\* The blocker and its callers, for each session the monitor may hold.
InitEnforce ==
    /\ InitServer
    /\ InitAgent
    /\ InitBlocker
    /\ current_session \in {None} \cup { Some(SessionOf(p)) : p \in {1, 3} }
    /\ InitOffline
    /\ InitTasks
    /\ InitSchedulers

NextEnforce ==
    \/ EnforceTick
    \/ \E g \in AgentGroups : OnWsBlockApp(g)
    \/ \E g \in AgentGroups : OnWsUnblockApp(g)
    \/ \E g \in AgentGroups : RemoteBlock(g)
    \/ \E g \in AgentGroups : RemoteUnblock(g)
    \/ OnTotpEntered
    \/ AgentClockTick
    \/ \E p \in {1, 2} : ProcessExits(p)
    \/ KillByExecutable
    \/ KillLookup
    \/ KillName
    \/ KillTerminate
    \/ KillWait
    \/ KillForce
    \/ KillWaitForced
    \/ KillNext
    \/ EnforceCallback

SpecEnforce == InitEnforce /\ [][NextEnforce]_vars

\* The enforce loop, the rule poll and the TOTP override.
NextOverride ==
    \/ EnforceTick
    \/ FetchAndCacheRules
    \/ TotpEnteredInTime
    \/ AgentClockTick
    \/ KillSteps
    \/ EnforceCallback

SpecOverride == InitEnforce /\ [][NextOverride]_vars

\* The enforce loop wakes up every monitor_interval, the rule poll every
\* rule_poll_interval and its REST call returns or fails, and the kill in
\* the executor thread returns.
SpecOverrideFair ==
    /\ SpecOverride
    /\ WF_vars(EnforceTick)
    /\ WF_vars(FetchAndCacheRules)
    /\ WF_vars(KillSteps \/ EnforceCallback)

\* The offline cache, the REST calls that fill it and the sync loop.
NextSync ==
    \/ \E accept \in BOOLEAN : SendUsageEvent(accept)
    \/ HeartbeatTick
    \/ ServerFlips
    \/ SyncStart
    \/ SyncPost
    \/ SyncMark

SpecSync == Init /\ [][NextSync]_vars

\* The sync loop wakes up every 30 s and its REST calls return.
SpecSyncFair == SpecSync /\ WF_vars(SyncStart \/ SyncPost \/ SyncMark)

\* The same with lost responses and a stop of the agent in mid-batch.
NextResync ==
    \/ NextSync
    \/ SendResponseLost
    \/ SyncResponseLost
    \/ SyncStopped

SpecResync == Init /\ [][NextResync]_vars

\* The life cycle of the agent from the moment its tasks run.
NextStop ==
    \/ RequestStop
    \/ StartCancels
    \/ StartReturns
    \/ \E fg \in {None, Some(1), Some(3)} : MonitorPoll(fg)
    \/ MonitorReport
    \/ MonitorStops
    \/ \E t \in IntervalLoops : LoopWork(t)
    \/ \E t \in IntervalLoops : LoopWaits(t)
    \/ \E t \in IntervalLoops : LoopStops(t)
    \/ WsConnect
    \/ WsSubtaskDone
    \/ WsSubtasksCancelled
    \/ WsCleanedUp
    \/ WsBackoffOver
    \/ \E t \in AgentTasks : DeliverCancel(t)

SpecStop == Init /\ [][NextStop]_vars

\* Every await of a task and of start() ends, and a task that can run does.
TaskSteps(t) ==
    \/ DeliverCancel(t)
    \/ t = "monitor" /\ (MonitorReport \/ MonitorStops)
    \/ t \in IntervalLoops /\ (LoopWaits(t) \/ LoopStops(t))
    \/ t = "websocket" /\ (WsConnect \/ WsSubtasksCancelled \/ WsCleanedUp
                               \/ WsBackoffOver)

SpecStopFair ==
    /\ SpecStop
    /\ WF_vars(StartCancels \/ StartReturns)
    /\ \A t \in AgentTasks : WF_vars(TaskSteps(t))

\* The quest scheduler among the parent's requests.
NextQuests ==
    \/ ScheduleDailyQuests
    \/ \E t \in QuestTemplateIds, rc \in QuestRecurrences : CreateQuestTemplate(t, rc)
    \/ \E t \in QuestTemplateIds, rc \in QuestRecurrences, a \in BOOLEAN :
          UpdateQuestTemplate(t, rc, a)
    \/ \E c \in QuestChildren : AddQuestChild(c)
    \/ \E t \in QuestTemplateIds, c \in QuestChildren : AssignQuest(t, c)
    \/ \E d \in SchedDays : CreateDayTypeOverride(d)
    \/ SchedDayPasses

SpecQuests == Init /\ [][NextQuests]_vars

\* Runs of the TAN scheduler in two processes.
NextTanSchedules ==
    \/ \E r \in Runners, rows \in RowOrders : RunTanSchedules(r, rows)
    \/ \E r \in Runners : FlushLog(r)
    \/ \E r \in Runners : GenerateScheduled(r)
    \/ \E r \in Runners : RunReturns(r)
    \/ \E r \in Runners : RunCommits(r)
    \/ \E r \in Runners : RunRollsBack(r)
    \/ \E d \in SchedDays : CreateDayTypeOverride(d)
    \/ SchedDayPasses

SpecTanSchedules == Init /\ [][NextTanSchedules]_vars

\* Runs of the usage rewards in two processes.
NextRewards ==
    \/ \E r \in Runners, rules \in RuleOrders : EvaluateDailyRewards(r, rules)
    \/ \E r \in Runners : FlushRewardLog(r)
    \/ \E r \in Runners : EvaluateRule(r)
    \/ \E r \in Runners : EvaluateReturns(r)
    \/ \E r \in Runners : EvaluateCommits(r)
    \/ \E r \in Runners : EvaluateRollsBack(r)
    \/ SchedDayPasses

SpecRewards == Init /\ [][NextRewards]_vars

\* The requests on the instances of one daily quest of one child.
NextQuestFlow ==
    \/ CreateQuestTemplate("q1", "daily")
    \/ AddQuestChild("c1")
    \/ ScheduleDailyQuests
    \/ \E h \in QuestHandlers, op \in QuestOps, i \in quest_instances :
          QuestLoad(h, op, InstKey(i))
    \/ \E h \in QuestHandlers, streak \in ActiveStreaks : QuestAct(h, streak)
    \/ \E h \in QuestHandlers : QuestCommit(h)

SpecQuestFlow == Init /\ [][NextQuestFlow]_vars

----------------------------------------------------------------------------
\* Properties of the TAN engine.

RedeemReqs == { r \in Reqs : req[r].kind = "redeem" /\ req[r].tan # 0 }

\* C1: for every TAN code, at most one redeem request is answered 200,
\* whatever the interleaving of the requests for that code.
C1_AtMostOneRedeemSucceeds == \A i \in 1..MaxTans : okCount[i] <= 1

\* C2: in every reachable state, for every child and date, at most
\* MAX_TANS_PER_DAY (3) TANs of the child are redeemed on that date.
C2_DailyCountWithinLimit ==
    \A c \in Children, d \in 0..MaxDay :
        CountRedeemedToday(tans, c, d * DaySeconds) <= 3

\* C3: in every reachable state, for every child and date, the value_minutes
\* of the child's time TANs redeemed on that date sum to at most
\* MAX_BONUS_MINUTES_PER_DAY (90).
C3_DailyBonusWithinLimit ==
    \A c \in Children, d \in 0..MaxDay :
        BonusToday(tans, c, d * DaySeconds) <= 90

\* C4: in every reachable state, a TAN has status redeemed if and only if
\* its redeemed_at is non-null.
C4_RedeemedIffStamped ==
    \A i \in TanIds : (tans[i].status = "redeemed") <=> (tans[i].redeemed_at # None)

\* C5: a TAN changes status only out of active; a redeemed or expired TAN
\* keeps its status whatever request is handled.
C5_StatusTerminal ==
    [][\A i \in TanIds :
          tans[i].status # "active" => tans'[i].status = tans[i].status]_vars

\* The six checks of a redemption of TAN t with loaded status st, evaluated
\* at instant at on the table rows: MustFail where the check has to reject,
\* MayFail where it is allowed to (the expiry check at at = expires_at is
\* the subject of C7 and is left open here).
InBlackoutWindow(at) == TimeOf(at) >= 21 * 3600 \/ TimeOf(at) < 6 * 3600

MustFail(j, t, st, at, rows) ==
    CASE j = 1 -> st # "active"
      [] j = 2 -> t.expires < at
      [] j = 3 -> CountRedeemedToday(rows, t.child, at) >= 3
      [] j = 4 -> t.value # None /\ BonusToday(rows, t.child, at) + t.value[1] > 90
      [] j = 5 -> \E k \in 1..Len(t.scope) :
                     t.scope[k] \in DOMAIN AppGroups /\ ~AppGroups[t.scope[k]]
      [] j = 6 -> InBlackoutWindow(at)

MayFail(j, t, st, at, rows) ==
    IF j = 2 THEN t.expires <= at ELSE MustFail(j, t, st, at, rows)

CheckOrder == << "status", "expired", "count", "bonus", "group", "blackout" >>
CheckOf(reason) == CHOOSE j \in 1..6 : CheckOrder[j] = reason

\* The first check a handler at this position has still to evaluate; 7 when
\* validate_tan_redemption has returned.
NextCheck(pc) ==
    CASE pc = "idle" -> 1
      [] pc = "v_count" -> 3
      [] pc = "v_bonus" -> 4
      [] pc = "v_group" -> 5
      [] OTHER -> 7

C6ValidationStep(r) ==
    LET q == req'[r]
        t == tans[q.tan]
        a == NextCheck(req[r].pc)
    IN  (a < 7 /\ q.kind = "redeem" /\ q.tan # 0 /\ q # req[r]) =>
          IF q.pc = "done"
          THEN /\ CheckOf(q.reason) >= a
               /\ MayFail(CheckOf(q.reason), t, t.status, q.now, tans)
               /\ \A j \in a..(CheckOf(q.reason) - 1) :
                      ~MustFail(j, t, t.status, q.now, tans)
               /\ q.http = 400
               /\ q.calls = << >>
               /\ tans' = tans
               /\ pend' = pend
          ELSE /\ NextCheck(q.pc) > a
               /\ \A j \in a..(NextCheck(q.pc) - 1) :
                      ~MustFail(j, t, t.status, q.now, tans)

\* C6 (as amended): a redeem request evaluates the checks in the order
\* status, expiry, daily count, daily bonus minutes, group tan_allowed,
\* blackout, each on the rows committed when it is evaluated, and fails
\* with the reason of the first check that fails; the failing request is
\* answered 400, changes no row of the table, flushes nothing and calls
\* neither notify_tan_activated nor push_rules_to_child_devices.
C6_FirstFailingCheckReported == [][\A r \in Reqs : C6ValidationStep(r)]_vars

\* A request was rejected for a denied group at an instant of the blackout
\* window: of two failing checks the earlier one was reported.
C6_GroupReportedInBlackout ==
    \E r \in RedeemReqs :
        /\ req[r].pc = "done" /\ req[r].reason = "group"
        /\ InBlackoutWindow(req[r].now)

\* C6 (as stated): whenever a redeem request has failed with 400, its TAN
\* has status active and redeemed_at null.
C6_FailureLeavesTanActive ==
    \A r \in RedeemReqs :
        (req[r].pc = "done" /\ req[r].http = 400) =>
            /\ tans[req[r].tan].status = "active"
            /\ tans[req[r].tan].redeemed_at = None

\* C7: a redeem request evaluated at or after the TAN's expires_at is
\* rejected as expired; it passes the expiry check only when
\* expires_at > now.
C7_ExpiredAtExpiresAt ==
    \A r \in RedeemReqs :
        (req[r].st = "active" /\ tans[req[r].tan].expires <= req[r].now) =>
            (req[r].pc = "done" /\ req[r].reason = "expired")

\* C8: a redeem request that has passed the other checks is rejected for
\* blackout exactly when its time of day t satisfies t >= 21:00:00 or
\* t < 06:00:00, and goes on to redeem_tan otherwise.
C8_BlackoutExactlyInWindow ==
    \A r \in RedeemReqs :
        /\ req[r].reason = "blackout" => InBlackoutWindow(req[r].now)
        /\ (req[r].pc \in {"redeem", "commit"} \/ req[r].http = 200)
              => ~InBlackoutWindow(req[r].now)

\* A redemption evaluated at 21:00:00 sharp was rejected for blackout.
C8_RejectedAtBlackoutStart ==
    \E r \in RedeemReqs :
        req[r].reason = "blackout" /\ TimeOf(req[r].now) = 21 * 3600

\* C9: no two rows of the tans table carry the same code, whatever the
\* interleaving of the creating sessions; generate_tan_code draws at most 10
\* times, and no session holds an inserted row whose code a committed row
\* has.
C9_NoTwoRowsShareACode ==
    /\ \A i, j \in 1..Len(tans) : i # j => tans[i].code # tans[j].code
    /\ \A g \in GenSessions :
         /\ gen[g].draws <= 10
         /\ CodesOf(gen[g].rows) \cap CodesOf(tans) = {}
         /\ \A h \in GenSessions \ {g} : CodesOf(gen[g].rows) \cap CodesOf(gen[h].rows) = {}

\* A session drew a code that no committed row had, another session
\* committed the same code first, and the INSERT was refused.
C9_InsertRefusedByIndex == \E g \in GenSessions : gen[g].error = "integrity"

\* C10: every handler that mutates the rule data of a child (TimeRule,
\* AppGroup, AppGroupApp, DeviceCoupling, a redeemed or invalidated TAN)
\* has, when it returns, called push_rules_to_child_devices, and every
\* device of the child connected since the mutation has been sent rules
\* that reflect it.
C10_MutationPushedToDevices ==
    \A h \in Handlers :
        hand[h].pc \in {"commit", "done"} =>
            /\ hand[h].pushed
            /\ \A d \in hand[h].stable : hand[h].mut \in received[d]

----------------------------------------------------------------------------
\* Properties of the rules cache.

\* C11: a resolution through the cache that starts after a push has returned
\* returns rules that reflect the mutation of that push, whatever the
\* interleaving of the pushes: no older computation replaces the cache
\* entry of a newer one.
C11_CachedRulesReflectPushedMutations ==
    resolver.pc = "returned" => resolver.seen \subseteq resolver.result

----------------------------------------------------------------------------
\* Properties of the rule resolution.

\* The non-null daily limits of the rules of device d's child that are
\* active, valid on Today and list the day type dt.
LimitsInForce(d, dt) ==
    { rdb[1].rules[i].daily_limit_minutes[1] :
        i \in { j \in RuleIds :
                 LET r == rdb[1].rules[j]
                 IN  /\ r.child_id = DeviceRows[d].child_id
                     /\ r.active
                     /\ (r.valid_from # None => r.valid_from[1] <= Today)
                     /\ (r.valid_until # None => Today <= r.valid_until[1])
                     /\ dt \in r.day_types
                     /\ r.daily_limit_minutes # None } }

\* C12: the resolved daily_limit_minutes of a device is the minimum of the
\* non-null daily limits of its child's active, date-valid rules whose
\* day_types contain the resolved day type, and null when there is none.
C12_DailyLimitIsMinimum ==
    \A d \in DOMAIN DeviceRows :
        resolved[d] # None =>
            LET L == LimitsInForce(d, resolved[d][1].day_type)
            IN  resolved[d][1].daily_limit_minutes =
                    IF L = {} THEN None
                    ELSE Some(CHOOSE m \in L : \A k \in L : m <= k)

\* C12 witness: two rules in force with different limits, the lower one
\* resolved.
C12_LowerOfTwoLimitsResolved ==
    /\ resolved[1] # None
    /\ LimitsInForce(1, resolved[1][1].day_type) = {2, 3}
    /\ resolved[1][1].daily_limit_minutes = Some(2)

\* The coupling whose shared budget device d draws on, if any: the
\* coupling of d's child, when it lists d and shares the budget.
SharedCoupling(d) ==
    LET c == rdb[1].coupling
    IN  IF /\ c # None
           /\ c[1].child_id = DeviceRows[d].child_id
           /\ d \in SeqRange(c[1].device_ids)
           /\ c[1].shared_budget
        THEN c ELSE None

UsedSecondsToday(devs) ==
    SumDurations({ e \in rdb[1].usage :
                     e.device_id \in devs /\ e.started_at >= Today * DaySeconds })

\* C13: with a daily limit, remaining_minutes is
\* max(0, limit - floor(used_seconds / 60)), the seconds of today's usage
\* events summed over all device_ids of the coupling when the device is in
\* a coupling with a shared budget and over the device alone otherwise; two
\* devices of one shared-budget coupling resolve to the same value.
C13_RemainingFromUsage ==
    /\ \A d \in DOMAIN DeviceRows :
          (resolved[d] # None /\ resolved[d][1].daily_limit_minutes # None) =>
              LET devs == IF SharedCoupling(d) # None
                          THEN SeqRange(SharedCoupling(d)[1].device_ids)
                          ELSE {d}
                  left == resolved[d][1].daily_limit_minutes[1]
                              - (UsedSecondsToday(devs) \div 60)
              IN  resolved[d][1].remaining_minutes =
                      Some(IF left > 0 THEN left ELSE 0)
    /\ \A d1, d2 \in DOMAIN DeviceRows :
          (/\ resolved[d1] # None /\ resolved[d2] # None
           /\ SharedCoupling(d1) # None /\ SharedCoupling(d2) # None) =>
              resolved[d1][1].remaining_minutes = resolved[d2][1].remaining_minutes

\* C13 witness: devices 1 and 2 share a budget of 3 minutes, 119 s and 61 s
\* were used on them, and both resolve to 0 remaining minutes.
C13_SharedBudgetUsedUp ==
    /\ resolved[1] # None /\ resolved[2] # None
    /\ SharedCoupling(1) # None /\ SharedCoupling(2) # None
    /\ UsedSecondsToday({1}) = 119 /\ UsedSecondsToday({2}) = 61
    /\ resolved[1][1].daily_limit_minutes = Some(3)
    /\ resolved[1][1].remaining_minutes = Some(0)
    /\ resolved[2][1].remaining_minutes = Some(0)

\* C14: the resolution for a device id without a row, or for a device
\* whose status is revoked, returns the empty record: day_type "unknown",
\* no time windows, group limits or active TANs, no daily limit and no
\* remaining minutes.
C14_AbsentOrRevokedResolvesEmpty ==
    \A d \in ResolveIds :
        (/\ resolved[d] # None
         /\ \/ d \notin DOMAIN DeviceRows
            \/ d = 1 /\ rdb[1].status = "revoked") =>
            /\ resolved[d][1].day_type = "unknown"
            /\ resolved[d][1].time_windows = << >>
            /\ resolved[d][1].group_limits = << >>
            /\ resolved[d][1].active_tans = {}
            /\ resolved[d][1].daily_limit_minutes = None
            /\ resolved[d][1].remaining_minutes = None

----------------------------------------------------------------------------
\* Properties of the connection registry.

\* The sockets that received the message of task t.
ReceivedBy(t) == { s \in RegSockets : t \in SeqRange(inbox[s]) }

\* C15: when send_to_device(d, m) returns true, the socket of d received m
\* before any send_to_device(d, m') that started later completes: the
\* sends to one device are delivered in the order of the calls.
C15_SendsDeliveredInCallOrder ==
    \A a, b \in RegTasks :
        (/\ task[a].op = "send" /\ task[b].op = "send"
         /\ task[a].dev = task[b].dev
         /\ a \in task[b].earlier
         /\ task[a].pc = "done" /\ task[a].ok
         /\ task[b].pc = "done") =>
            a \notin task[b].pendingAtEnd

\* C16: a device id maps to one socket, the one of its latest connect: a
\* send_to_device that starts after connect(d, c, s1) and connect(d, c, s2)
\* never delivers to s1 and, when it succeeds, delivers to s2; every child
\* counts each of its connected devices once.
C16_SendGoesToLatestSocket ==
    /\ \A t \in RegTasks :
          (task[t].op = "send" /\ task[t].known = { << 1, 1 >>, << 1, 2 >> }) =>
              /\ task[t].target \in { None, Some(<< 1, 2 >>) }
              /\ (task[t].pc = "done" /\ task[t].ok) => ReceivedBy(t) = { << 1, 2 >> }
              /\ (task[t].pc = "done" /\ ~task[t].ok) => ReceivedBy(t) = {}
    /\ \A c \in RegChildren :
          GetConnectedCount(c) =
              Cardinality({ d \in RegDevices : RegChild[d] = c /\ connections[d] # None })

\* C16 witness: both sockets of device 1 are open, a send that started
\* after the second connect was delivered to the second socket, and the
\* device counts once.
C16_DeliveredToSecondSocket ==
    /\ sock[<< 1, 1 >>] = "open" /\ sock[<< 1, 2 >>] = "open"
    /\ \E t \in RegTasks :
          /\ task[t].op = "send" /\ task[t].pc = "done" /\ task[t].ok
          /\ task[t].known = { << 1, 1 >>, << 1, 2 >> }
          /\ ReceivedBy(t) = { << 1, 2 >> }
    /\ connections[2] = None
    /\ GetConnectedCount(1) = 1

\* C17: send_to_child_devices(c, m) takes the devices connected for c when
\* it is called, delivers m to no socket of a device of another child,
\* delivers it to every one of those devices that stays connected, and
\* returns the number of sockets that took m.
C17_ChildSendReachesChildDevices ==
    \A t \in RegTasks :
        task[t].op = "child" =>
            /\ task[t].snap = { d \in RegDevices : /\ RegChild[d] = task[t].child
                                                  /\ task[t].snapSock[d] # None }
            /\ \A s \in ReceivedBy(t) : RegChild[s[1]] = task[t].child
            /\ task[t].pc = "done" =>
                  /\ task[t].count = Cardinality(ReceivedBy(t))
                  /\ \A d \in task[t].snap :
                        (connections[d] # None /\ connections[d] = task[t].snapSock[d]) =>
                            connections[d][1] \in ReceivedBy(t)

\* C17 witness: both devices of child 1 took the message, the connected
\* device of child 2 did not, and the call returned 2.
C17_BothDevicesOfChildReached ==
    \E t \in RegTasks :
        /\ task[t].op = "child" /\ task[t].pc = "done" /\ task[t].child = 1
        /\ task[t].count = 2
        /\ sock[<< 3, 1 >>] = "open"
        /\ << 3, 1 >> \notin ReceivedBy(t)

\* The parent sockets that received the message of call t.
NotifiedBy(t) == { p \in ParentSockets : t \in SeqRange(pinbox[p]) }

\* C18: notify_parents(f, m) sends m to every parent socket registered for
\* family f and to no socket of another family and no device socket; it
\* returns the number of sends that succeeded, and at its return no socket
\* whose send failed is registered any more.
C18_ParentsOfFamilyNotified ==
    /\ \A s \in RegSockets : inbox[s] = << >>
    /\ \A t \in NotifyTasks :
          /\ \A p \in NotifiedBy(t) : ParentFamily[p] = notifier[t].family
          /\ notifier[t].pc = "done" =>
                /\ \A p \in notifier[t].snap :
                      p \in NotifiedBy(t) \/ p \notin ParentsOf(notifier[t].family)
                /\ notifier[t].count = Cardinality(NotifiedBy(t))
                /\ \A p \in ParentSockets :
                      (/\ ParentFamily[p] = notifier[t].family
                       /\ p \in notifier[t].snap
                       /\ p \notin NotifiedBy(t)) =>
                          /\ psock[p] # "open"
                          /\ p \notin ParentsOf(notifier[t].family)

\* C18 witness: of the two sockets of family 1 one took the message and
\* the other failed and is unregistered while its handler still runs; the
\* open socket of family 2 received nothing; the call returned 1.
C18_OneNotifiedOneDropped ==
    \E t \in NotifyTasks :
        /\ notifier[t].pc = "done" /\ notifier[t].family = 1
        /\ notifier[t].snap = {1, 2}
        /\ notifier[t].count = 1
        /\ \E p \in {1, 2} : psock[p] = "dead" /\ p \notin ParentsOf(1)
        /\ psock[3] = "open" /\ pinbox[3] = << >>

----------------------------------------------------------------------------
\* Properties of the agent.

\* C19: a rules_updated message the agent reads from its socket is
\* dispatched to the rule application: the rules snapshot becomes the
\* rules of the message, the blocked set is updated from them and they are
\* written to the offline cache.
C19_PushedRulesApplied ==
    [][(/\ ws_in # << >>
        /\ ws_in' = Tail(ws_in)
        /\ Head(ws_in).type = "rules_updated") =>
           /\ agent_rules' = Some(Head(ws_in).rules)
           /\ cached_rules' = Some(Head(ws_in).rules)
           /\ blocked_groups' =
                  ApplyGroupLimits(Head(ws_in).rules.group_limits, blocked_groups)]_vars

\* The group, the limit and the used minutes of a group_limits entry.
EntryGroup(gl) == IF "group_id" \in DOMAIN gl THEN gl["group_id"] ELSE gl["app_group_id"]
EntryLimit(gl) ==
    IF "limit_minutes" \in DOMAIN gl THEN gl["limit_minutes"]
    ELSE DictGet(gl, "max_minutes", 0)
EntryUsed(gl) == DictGet(gl, "used_minutes", 0)

\* C20: when a rules snapshot has been applied, every group_limits entry of
\* it has its group in blocked_groups exactly if its limit is > 0 and its
\* used minutes are >= its limit.
C20_BlockedIffOverLimit ==
    [][agent_rules' # agent_rules =>
          \A i \in 1..Len(agent_rules'[1].group_limits) :
              LET gl == agent_rules'[1].group_limits[i]
              IN  (EntryGroup(gl) \in blocked_groups') <=>
                      (EntryLimit(gl) > 0 /\ EntryUsed(gl) >= EntryLimit(gl))]_vars

----------------------------------------------------------------------------
\* The session an enforce call was given is non-null and its app group is
\* in the blocked groups of that moment.
BlockedSession(session, blocked) ==
    /\ session # None
    /\ \E g \in blocked : session[1].app_group_id = Some(g)

\* C21: an enforce call runs kill_by_executable on the session's executable
\* and then fires on_block_action(executable, group_id), each exactly once,
\* if and only if its session is non-null and the session's app group is
\* blocked; otherwise it kills nothing and fires nothing; and no step of
\* an enforce call changes blocked_groups.
C21_EnforceKillsIffBlocked ==
    /\ [](/\ killer.pc # "idle" => BlockedSession(killer.session, killer.blocked)
          /\ last_enforce # None =>
                LET e == last_enforce[1]
                IN  e.events =
                        IF BlockedSession(e.session, e.blocked)
                        THEN << << "kill", e.session[1].executable >>,
                                << "callback", e.session[1].executable,
                                   e.session[1].app_group_id >> >>
                        ELSE << >>)
    /\ [][(killer.pc # "idle" /\ killer' # killer)
            => blocked_groups' = blocked_groups]_vars

\* An enforce call on a blocked session has killed and fired the callback,
\* and one on an untracked session has returned without doing anything.
C21_BlockedSessionEnforced ==
    /\ last_enforce # None
    /\ Len(last_enforce[1].events) = 2
    /\ last_enforce[1].by = "loop"
    /\ \E p \in Pids : ~alive[p]

\* The TOTP override is set and in the future.
OverrideActive ==
    totp_override_until # None /\ agent_now < totp_override_until[1]

\* C22: while the TOTP override is set and in the future, no step of the
\* agent terminates a process or fires on_block_action.
C22_NoEnforcementDuringOverride ==
    [][OverrideActive =>
          /\ ~(killer.pc \in {"wait", "wait2"} /\ alive' # alive)
          /\ ~(killer.pc = "callback" /\ killer'.pc = "idle")]_vars

\* C23: whenever kill_process returns, it returns success if and only if
\* the process is no longer alive.
C23_KillSucceedsIffGone ==
    killer.pc = "returned" => (killer.ret = "True" <=> killer.gone)

\* The ids of all unsynced rows, oldest first, and the ids the running
\* batch has POSTed or tried to POST, in that order.
AllUnsynced == GetPendingEvents(Len(pending_events))
Attempted == [k \in 1..Len(sync.attempts) |-> sync.attempts[k][1]]
PostedOk == { sync.attempts[k][1] : k \in { j \in 1..Len(sync.attempts) :
                                               sync.attempts[j][2] = "ok" } }

\* C24: within one sync cycle the events are POSTed in ascending id order
\* beginning with the oldest unsynced event and without a gap, no event is
\* tried after a POST of the cycle failed, and the rows the cycle marks as
\* synced are exactly those whose POST succeeded.
C24_SyncInOrderUntilFailure ==
    /\ [](/\ Len(Attempted) <= Len(AllUnsynced)
          /\ Attempted = SubSeq(AllUnsynced, 1, Len(Attempted))
          /\ \A k \in 1..Len(sync.attempts) :
                k < Len(sync.attempts) => sync.attempts[k][2] = "ok")
    /\ [][sync.pc = "mark" /\ sync'.pc = "idle" =>
            { i \in 1..Len(pending_events) :
                 pending_events'[i].synced /\ ~pending_events[i].synced }
            = PostedOk]_vars

\* A batch whose first POST succeeded and whose second POST failed.
C24_SecondPostFailed ==
    /\ sync.pc = "mark"
    /\ Len(sync.attempts) = 2
    /\ sync.attempts[1][2] = "ok"
    /\ sync.attempts[2][2] # "ok"
    /\ Len(AllUnsynced) = 3

\* C25: if from some moment on the server stays reachable, every row of
\* pending_events is eventually marked synced.
C25_QueueDrains ==
    (<>[]server_up) =>
        \A i \in 1..MaxEvents :
            [](Len(pending_events) >= i =>
                  <>(Len(pending_events) >= i /\ pending_events[i].synced))

\* C26: every usage event and heartbeat produced so far was taken by the
\* server or is a row of pending_events, and a step that queues an event
\* leaves the agent offline.
C26_EventSentOrQueued ==
    /\ [](\A n \in 1..produced :
             \/ \E k \in 1..Len(server_log) : server_log[k] = n
             \/ \E i \in 1..Len(pending_events) : pending_events[i].n = n)
    /\ [][Len(pending_events') > Len(pending_events) => ~online']_vars

\* A heartbeat went through and set the agent online, then a usage event
\* and a heartbeat failed and were queued.
C26_BothKindsQueued ==
    /\ ~online
    /\ server_log # << >>
    /\ \E i, j \in 1..Len(pending_events) :
          /\ pending_events[i].event_type = "usage_event"
          /\ pending_events[j].event_type = "heartbeat"

\* C27: when the monitor has ended, the session it tracked is closed:
\* on_app_change(old, null) was called for it and no usage event of it is
\* left unreported.
C27_ClosingSessionReported ==
    Finished("monitor") => current_session = None

\* C28: once stop_event is set, every task ends and start() returns.
C28_StopEndsEveryTask ==
    stop_event ~> (starter = "returned" /\ \A t \in AgentTasks : Finished(t))

\* The instances the quest scheduler created for a pair on a day.
ScheduledInstances(p, d) ==
    { i \in quest_instances :
        /\ i.template_id = p[1] /\ i.child_id = p[2]
        /\ i.created_at = d /\ i.by[1] = "scheduler" }

C30_OneTanPerScheduleAndDate ==
    \A s \in TanScheduleIds, d \in SchedDays :
        /\ Cardinality({ l \in tan_schedule_logs :
                           l.schedule_id = s /\ l.generated_date = d }) <= 1
        /\ Cardinality({ t \in scheduled_tans :
                           t.schedule_id = s /\ t.date = d }) <= 1

\* A run holds an uncommitted TAN of a schedule and date for which another
\* run's TAN and log row are committed.
C30_OverlappingRun ==
    \E r \in Runners : \E t \in runner[r].tans :
        /\ \E l \in tan_schedule_logs :
              l.schedule_id = t.schedule_id /\ l.generated_date = t.date
        /\ \E c \in scheduled_tans :
              c.schedule_id = t.schedule_id /\ c.date = t.date

\* C31: for every usage-reward rule and evaluated date at most one
\* committed log row and at most one committed reward TAN exist, whatever
\* runs of evaluate_daily_rewards were started, overlapped or rolled back.
C31_OneRewardPerRuleAndDate ==
    \A u \in RewardRuleIds, d \in (SchedFirstDay - 1)..MaxSchedDay :
        /\ Cardinality({ l \in usage_reward_logs :
                           l.rule_id = u /\ l.evaluated_date = d }) <= 1
        /\ Cardinality({ t \in reward_tans : t.rule_id = u /\ t.date = d }) <= 1

\* A run holds an uncommitted reward TAN of a rule and date for which
\* another run's TAN and log row are committed.
C31_OverlappingEvaluation ==
    \E r \in Runners : \E t \in evaluator[r].tans :
        /\ \E l \in usage_reward_logs :
              l.rule_id = t.rule_id /\ l.evaluated_date = t.date
        /\ \E c \in reward_tans : c.rule_id = t.rule_id /\ c.date = t.date

\* The steps a quest instance may take.
QuestSteps ==
    { << "available", "claimed" >>, << "claimed", "pending_review" >>,
      << "pending_review", "approved" >>, << "pending_review", "rejected" >> }

\* The statuses a row has had, one after the other, when a handler commits:
\* the committed status, then what the handler's UPDATE statements wrote.
StatusTrail(h) ==
    << InstRow(quest_instances, quest_handlers[h].key).status >>
        \o quest_handlers[h].steps

\* C32: every UPDATE of a quest instance moves its status one step along
\* available, claimed, pending_review, approved or rejected.
C32_StatusStepsInOrder ==
    [][\A h \in QuestHandlers :
          (quest_handlers[h].pc = "flushed" /\ quest_handlers'[h].pc = "idle")
          => \A k \in 1..Len(quest_handlers[h].steps) :
                \/ << StatusTrail(h)[k], StatusTrail(h)[k + 1] >> \in QuestSteps
                \/ StatusTrail(h)[k] = StatusTrail(h)[k + 1]]_vars

\* The children whose set holds device d.
ChildrenHolding(cd, d) == { c \in DOMAIN cd : d \in cd[c] }

\* C33: the two device indices agree (a device is in the set of a child
\* exactly when it has a socket in the connection map, and then in the set
\* of its own child), no child maps to an empty set, and a send_to_device
\* whose send_json raises returns False and leaves the device in neither
\* index.
C33_IndicesAgree ==
    /\ [](/\ \A d \in RegDevices :
               ChildrenHolding(child_devices, d) =
                   IF connections[d] # None THEN {RegChild[d]} ELSE {}
          /\ \A c \in DOMAIN child_devices : child_devices[c] # {})
    /\ [][\A t \in RegTasks :
             (/\ task[t].op = "send"
              /\ task[t].pc = "sending" /\ task'[t].pc = "done"
              /\ sock[task[t].target[1]] # "open")
             => /\ ~task'[t].ok
                /\ connections'[task[t].dev] = None
                /\ ChildrenHolding(child_devices', task[t].dev) = {}]_vars

\* C33 witness: a send to device 1 failed and returned False, device 1 is in
\* neither index, and the other device of its child is still in both.
C33_FailedSendCleaned ==
    \E t \in RegTasks :
        /\ task[t].op = "send" /\ task[t].pc = "done" /\ task[t].dev = 1
        /\ task[t].target # None /\ ~task[t].ok
        /\ connections[1] = None
        /\ connections[2] # None
        /\ child_devices = (1 :> {2})

\* C37: the registration of a device's newer socket stays while that socket
\* is open and its handler has not left: no cleanup of the older socket
\* removes it.
C37_NewerSocketStaysRegistered ==
    sock[<< 1, 2 >>] = "open" =>
        /\ connections[1] = Some(<< 1, 2 >>)
        /\ 1 \in ChildDevicesOf(RegChild[1])

\* The enforce loop has called enforce with group g among the blocked
\* groups, and g is blocked.
EnforcedAgain(g) ==
    /\ g \in blocked_groups
    /\ last_enforce # None
    /\ last_enforce[1].by = "loop"
    /\ g \in last_enforce[1].blocked

\* An override is set and the clock has not reached its end.
OverrideRunning ==
    totp_override_until # None /\ agent_now < totp_override_until[1]

\* C34: an expired TOTP override is cleared by the enforce loop, and once
\* no override is set every group the current rules snapshot puts over its
\* limit is blocked and passed to enforce by the loop, unless a new override
\* starts or a newer snapshot takes the group off the list first.
C34_EnforcementResumes ==
    /\ (totp_override_until # None /\ ~OverrideRunning)
           ~> (totp_override_until = None \/ OverrideRunning)
    /\ \A g \in AgentGroups :
          (totp_override_until = None /\ g \in OverLimitGroups(agent_rules))
              ~> \/ EnforcedAgain(g)
                 \/ OverrideRunning
                 \/ g \notin OverLimitGroups(agent_rules)

\* C34 witness: the override has expired and the loop has cleared it and
\* called enforce with no blocked group, while the snapshot has g1 over its
\* limit: the override unblocked g1 and no poll has blocked it again.
C34_OverrideExpiredAndCleared ==
    /\ totp_override_until = None
    /\ agent_now >= OverrideTicks
    /\ "g1" \in OverLimitGroups(agent_rules)
    /\ blocked_groups = {}
    /\ last_enforce # None
    /\ last_enforce[1].by = "loop"
    /\ last_enforce[1].blocked = {}

\* The delays the back-off takes.
BackoffValues == {1, 2, 4, 8, 16, 32, 60}

\* The delay starts at 1 s, doubles with each sleep up to 60 s and goes back
\* to 1 s only when connect() has returned after auth_ok.
BackoffDoublesAndResets ==
    /\ [](atask["websocket"].backoff \in BackoffValues)
    /\ [][LET ws == atask["websocket"]
              ws2 == atask'["websocket"]
          IN  /\ (ws.pc = "backoff" /\ ws2.pc = "connect") =>
                     ws2.backoff = Min(2 * ws.backoff, 60)
              /\ (ws.pc = "connect" /\ ws2.pc = "running") => ws2.backoff = 1
              /\ ws2.backoff # ws.backoff =>
                     \/ ws.pc = "backoff" /\ ws2.pc = "connect"
                     \/ ws.pc = "connect" /\ ws2.pc = "running"]_vars

\* C35: the run() loop reaches connect() again only from the end of
\* sleep(backoff), and the delay starts at 1 s, doubles up to 60 s and is
\* reset to 1 s only by a connect() that returned after auth_ok.
C35_BackoffBeforeEveryReconnect ==
    /\ BackoffDoublesAndResets
    /\ [][(atask["websocket"].pc # "connect" /\ atask'["websocket"].pc = "connect")
             => atask["websocket"].pc = "backoff"]_vars

\* C36: a TAN that is active after its expires_at gets status expired.
C36_ActiveTanExpiresByTtl ==
    \A i \in 1..MaxTans :
        (i \in TanIds /\ tans[i].status = "active" /\ now > tans[i].expires)
            ~> (i \in TanIds /\ tans[i].status = "expired")

\* A TAN the parent invalidated is deleted by the sweep, 30 days after its
\* expires_at.
InvalidatedTanSwept ==
    \E i \in TanIds : tans[i].status = "deleted"

\* An active TAN is still in the table 30 days after its expires_at.
ActiveTanOutlivesRetention ==
    \E i \in TanIds :
        /\ tans[i].status = "active"
        /\ tans[i].expires < now - TanRetentionDays * DaySeconds

\* C38: no device has received rules, and no cache entry holds rules, that
\* reflect a mutation whose session was rolled back.
C38_DeliveredRulesAreCommitted ==
    /\ \A h \in Handlers :
          hand[h].pc = "failed" =>
              \A d \in Devices : hand[h].mut \notin received[d]
    /\ \A m \in CacheMuts :
          pusher[m].pc = "rolled_back" =>
              \A d \in CacheDevices : cache[d] = None \/ m \notin cache[d][1]

\* The groups the entries of a snapshot's group_limits name.
SnapshotGroups(rules) ==
    { EntryGroup(rules.group_limits[i]) : i \in 1..Len(rules.group_limits) }

\* C39: with the snapshots as the only source of blocks, every blocked
\* group is named by an entry of the snapshot applied last.
C39_NoGroupBlockedBySupersededSnapshot ==
    agent_rules # None => blocked_groups \subseteq SnapshotGroups(agent_rules[1])

\* C40: the server has recorded no event twice.
C40_EventRecordedAtMostOnce ==
    \A i, j \in 1..Len(server_log) :
        server_log[i] = server_log[j] => i = j

====
